---------------------------- MODULE Spec2Model ----------------------------
(***************************************************************************)
(* Model of the boot-operator image proxy and config-drive cache.          *)
(*                                                                         *)
(*   server/imageproxyserver.go   registry policy, auth negotiation and    *)
(*                                 blob proxy (specifications PolicySpec   *)
(*                                 and Spec)                               *)
(*   unnamed/part_028             ConfigDriveCache (specifications         *)
(*                                 CacheSpec and CacheVersionSpec)         *)
(*   internal/uki, internal/controller                                     *)
(*                                 image reference parsing (RefSpec) and   *)
(*                                 manifest resolution (ResolveSpec)       *)
(*   server/imageproxyserver.go   the routes /image and /httpboot/ in      *)
(*                                 front of the proxy (ServerSpec)         *)
(*   server/imageproxyserver.go   the response hook of the reverse proxy   *)
(*                                 (RedirectSpec) and registry auth        *)
(*                                 detection on its own (DetectSpec)       *)
(*   internal/controller          ServerBootConfiguration PXE reconciler   *)
(*                                 (PxeSpec, PxeFairSpec)                  *)
(*   unnamed/part_017, part_021   the reconciler that enforces the Server  *)
(*                                 name as hostname (HostnameSpec,         *)
(*                                 HostnameFairSpec)                       *)
(*   unnamed/part_023             boot server: /httpboot (HTTPBootSpec)    *)
(*                                 and status conditions (ConditionSpec)   *)
(*   internal/controller          the PXE reconciler over manifests with   *)
(*                                 any layers (ArtifactSpec)               *)
(*   unnamed/part_028             ConfigDriveCache with the ticker of      *)
(*                                 cleanup (SweepSpec), with callers that  *)
(*                                 keep running (CacheFairSpec) and with a *)
(*                                 record of the calls (RecordSpec)        *)
(*   internal/uki, server         the UKI URL from the reconciler to the   *)
(*                                 image proxy (UKIURLSpec)                *)
(*                                                                         *)
(* Go strings that the code splits, trims or concatenates are sequences of *)
(* one-character strings; strings that the code only compares or copies    *)
(* are TLA+ strings.                                                       *)
(***************************************************************************)
EXTENDS Integers, Sequences, FiniteSets, TLC

VARIABLES
    \* ---- process environment (server/imageproxyserver.go) ----
    allowList,      \* os.Getenv("ALLOWED_REGISTRIES")
    blockList,      \* os.Getenv("BLOCKED_REGISTRIES")
    \* ---- one call of isRegistryAllowed ----
    polArg,         \* the registry argument of the call that has returned
    polRes,         \* "none" before the call, then "allow" or "deny"
    \* ---- image proxy (server/imageproxyserver.go) ----
    registryCache,  \* the process-wide map registry domain -> *RegistryInfo
    pc,             \* per handler goroutine, where it stands in handleDockerRegistry
    req,            \* per handler, the ImageDetails of the request it serves
    regInfo,        \* per handler, the registryInfo it obtained
    authToken,      \* per handler, the local authToken
    resp,           \* per handler, the status code written to the client (0: none yet)
    calls,          \* per handler, the outbound HTTP requests made for the request
    served,         \* number of requests accepted so far
    rawReq,         \* per handler, the HTTP request line it was started with
    \* ---- ConfigDriveCache (unnamed/part_028) ----
    cache,          \* c.cache: map key -> entry, a function on the keys present
    currentSize,    \* c.currentSize
    mu,             \* c.mu: "free", or "Set" while a Set call holds the write lock
    setCall,        \* the running Set call's arguments (key, data, version)
    now,            \* the clock read by time.Now() / time.Since()
    srcVersion,     \* per key, the resource version of the secret it was built from
    ret,            \* what the Get call that has just returned gave its caller
    \* ---- one call of a function of the resolution code ----
    fnCall,         \* the function called and its arguments
    fnRet,          \* what the call returned
    \* ---- the cluster the reconcilers work on (internal/controller) ----
    servers,        \* the Server objects, by name
    bootConfigs,    \* the ServerBootConfiguration objects, by name
    secrets,        \* the Secret objects of the namespace, by name
    ipxeBootConfigs,\* the IPXEBootConfig objects, by name
    ociImage,       \* what the OCI registry holds under the image reference
    apiFailures     \* API calls that have failed so far

envVars == <<allowList, blockList>>

policyVars == <<polArg, polRes>>

cacheVars == <<cache, currentSize, mu, setCall, now, srcVersion, ret>>

proxyVars == <<registryCache, pc, req, regInfo, authToken, resp, calls, served, rawReq>>

fnVars == <<fnCall, fnRet>>

kubeVars == <<servers, bootConfigs, secrets, ipxeBootConfigs, ociImage, apiFailures>>

vars == <<envVars, policyVars, proxyVars, cacheVars, fnVars, kubeVars>>

\* No function of the resolution code has been called.
FnIdle ==
    /\ fnCall = [fn |-> "", arg |-> <<>>]
    /\ fnRet = [err |-> FALSE]

\* No reconciler runs: the cluster is empty.
KubeIdle ==
    /\ servers = <<>>
    /\ bootConfigs = <<>>
    /\ secrets = <<>>
    /\ ipxeBootConfigs = <<>>
    /\ ociImage = <<>>
    /\ apiFailures = 0

\* ------------------------------------------------------------------------
\* Strings
\* ------------------------------------------------------------------------

RECURSIVE IndexFrom(_, _, _)
\* Position of the first c in s at or after i, 0 when there is none.
IndexFrom(s, c, i) ==
    IF i > Len(s) THEN 0
    ELSE IF s[i] = c THEN i
    ELSE IndexFrom(s, c, i + 1)

RECURSIVE Split(_, _)
\* strings.Split(s, sep) for a one-character sep: the pieces between the
\* separators, empty pieces included; a string without sep is its one piece.
Split(s, sep) ==
    LET i == IndexFrom(s, sep, 1)
    IN IF i = 0 THEN <<s>>
       ELSE <<SubSeq(s, 1, i - 1)>> \o Split(SubSeq(s, i + 1, Len(s)), sep)

RECURSIVE TrimLeft(_)
TrimLeft(s) == IF s # <<>> /\ Head(s) = " " THEN TrimLeft(Tail(s)) ELSE s

RECURSIVE TrimRight(_)
TrimRight(s) ==
    IF s # <<>> /\ s[Len(s)] = " " THEN TrimRight(SubSeq(s, 1, Len(s) - 1)) ELSE s

\* strings.TrimSpace
TrimSpace(s) == TrimRight(TrimLeft(s))

\* ------------------------------------------------------------------------
\* RegistryPolicy
\* ------------------------------------------------------------------------

RECURSIVE AnyItemIs(_, _, _)
\* The loop of isInList over items[i..]: true at the first item that equals
\* registry once trimmed.
AnyItemIs(items, registry, i) ==
    IF i > Len(items) THEN FALSE
    ELSE IF TrimSpace(items[i]) = registry THEN TRUE
    ELSE AnyItemIs(items, registry, i + 1)

\* isInList: exact match against the comma-separated items of list.
isInList(registry, list) ==
    IF list = <<>> THEN FALSE
    ELSE AnyItemIs(Split(list, ","), registry, 1)

\* The policy with the block-list consulted before the allow-list.
isRegistryAllowedBlockFirst(registry) ==
    IF blockList # <<>> THEN ~isInList(registry, blockList)
    ELSE IF allowList # <<>> THEN isInList(registry, allowList)
    ELSE FALSE

\* The policy failing open when nothing is configured.
isRegistryAllowedFailOpen(registry) ==
    IF allowList # <<>> THEN isInList(registry, allowList)
    ELSE ~isInList(registry, blockList)

\* isRegistryAllowed: allow-list first, then block-list, else deny.
isRegistryAllowed(registry) ==
    IF allowList # <<>> THEN isInList(registry, allowList)
    ELSE IF blockList # <<>> THEN ~isInList(registry, blockList)
    ELSE FALSE

\* Longest value of ALLOWED_REGISTRIES / BLOCKED_REGISTRIES tried.
MaxListLen == 3

ListChars == {"a", "b", ",", " "}

\* The values of the two environment variables.
ListStrings == UNION {[1..n -> ListChars] : n \in 0..MaxListLen}

\* The registry domains asked about.
PolicyDomains == {<<>>, <<"a">>, <<"b">>, <<"a", "b">>, <<" ", "a">>, <<"a", " ">>}

\* No call of isRegistryAllowed is being looked at.
PolicyIdle ==
    /\ polArg = <<>>
    /\ polRes = "none"

\* One call isRegistryAllowed(registry).
CheckRegistry(registry) ==
    /\ polRes = "none"
    /\ polArg' = registry
    /\ polRes' = IF isRegistryAllowed(registry) THEN "allow" ELSE "deny"
    /\ UNCHANGED <<envVars, proxyVars, cacheVars, fnVars, kubeVars>>

\* ------------------------------------------------------------------------
\* Image proxy: RegistryAuthNegotiator and BlobProxy
\* ------------------------------------------------------------------------

\* The handler goroutines that may run at once.
Handlers == {"h1", "h2"}

\* Requests accepted in one run.
MaxRequests == 2

\* ImageDetails.RegistryDomain, RepositoryName and LayerDigest of the requests.
ProxyDomains == {<<"a">>, <<"b">>}

Repositories == {<<"org/x">>, <<"org/y">>}

Digests == {"sha256:d"}

ImageDetailsSet ==
    [RegistryDomain : ProxyDomains, RepositoryName : Repositories, LayerDigest : Digests]

NoDetails == [RegistryDomain |-> <<>>, RepositoryName |-> <<>>, LayerDigest |-> ""]

\* RegistryInfo
RegistryInfo(domain, authMethod, tokenURL, realm) ==
    [Domain |-> domain, AuthMethod |-> authMethod, TokenURL |-> tokenURL, Realm |-> realm]

NoInfo == RegistryInfo(<<>>, "nil", <<>>, <<>>)

\* No HTTP request line: the handler was entered with parsed ImageDetails.
NoRequest == [route |-> "", imageName |-> <<>>, version |-> <<>>, layerDigest |-> <<>>,
              path |-> <<>>]

\* WWW-Authenticate values, as the pieces the code searches for and cuts at.
BearerChallenge ==
    <<"Bearer ", "realm=\"", "https://auth/token", "\"", ",", "service=\"", "svc", "\"">>

BearerNoService == <<"Bearer ", "realm=\"", "https://auth/token", "\"">>

BearerNoRealm == <<"Bearer ", "service=\"", "svc", "\"">>

BasicChallenge == <<"Basic ", "realm=\"", "reg", "\"">>

\* What GET https://<domain>/v2/ may come back with.
ProbeResponses ==
    {[reachable |-> FALSE, StatusCode |-> 0, WWWAuthenticate |-> <<>>]}
    \cup [reachable : {TRUE}, StatusCode : {200, 500}, WWWAuthenticate : {<<>>}]
    \cup [reachable : {TRUE}, StatusCode : {401},
          WWWAuthenticate : {<<>>, BearerChallenge, BearerNoService, BearerNoRealm,
                             BasicChallenge, <<"Negotiate">>}]

\* What GET <tokenURL> may come back with: a failure (unreachable, unreadable
\* or not JSON), or a JSON body, whose "token" member may be missing.
TokenResponses ==
    {[err |-> TRUE, Token |-> ""]} \cup [err : {FALSE}, Token : {"", "t1", "t2"}]

\* Status of the upstream blob response.
BlobStatuses == {200, 404}

\* extractParam: the text between param=" and the next quote, "" if either
\* is missing.
extractParam(header, param) ==
    LET start == IndexFrom(header, param \o "=\"", 1)
    IN IF start = 0 THEN <<>>
       ELSE LET end == IndexFrom(header, "\"", start + 1)
            IN IF end = 0 THEN <<>> ELSE SubSeq(header, start + 1, end - 1)

\* extractTokenURL
extractTokenURL(authHeader, repository) ==
    LET realm == extractParam(authHeader, "realm")
        service == extractParam(authHeader, "service")
        scope == <<"repository:">> \o repository \o <<":pull">>
    IN IF realm = <<>> THEN <<>>
       ELSE IF service # <<>>
            THEN realm \o <<"?service=">> \o service \o <<"&scope=">> \o scope
            ELSE realm \o <<"?scope=">> \o scope

\* strings.HasPrefix(header, scheme + " ")
HasPrefix(header, prefix) == header # <<>> /\ Head(header) = prefix

\* detectRegistryAuth taking every 401 that is not a Bearer challenge for a
\* Basic one.
detectRegistryAuthAnyBasic(registryDomain, repository, response) ==
    IF ~response.reachable THEN [err |-> TRUE, info |-> NoInfo]
    ELSE IF response.StatusCode = 200
    THEN [err |-> FALSE, info |-> RegistryInfo(registryDomain, "AuthNone", <<>>, <<>>)]
    ELSE IF response.StatusCode = 401
    THEN LET authHeader == response.WWWAuthenticate
         IN IF HasPrefix(authHeader, "Bearer ")
            THEN [err |-> FALSE,
                  info |-> RegistryInfo(registryDomain, "AuthBearer",
                                        extractTokenURL(authHeader, repository), <<>>)]
            ELSE [err |-> FALSE,
                  info |-> RegistryInfo(registryDomain, "AuthBasic", <<>>,
                                        extractParam(authHeader, "realm"))]
    ELSE [err |-> TRUE, info |-> NoInfo]

\* detectRegistryAuth, given the response to the probe.
detectRegistryAuth(registryDomain, repository, response) ==
    IF ~response.reachable THEN [err |-> TRUE, info |-> NoInfo]
    ELSE IF response.StatusCode = 200
    THEN [err |-> FALSE, info |-> RegistryInfo(registryDomain, "AuthNone", <<>>, <<>>)]
    ELSE IF response.StatusCode = 401
    THEN LET authHeader == response.WWWAuthenticate
         IN IF authHeader = <<>> THEN [err |-> TRUE, info |-> NoInfo]
            ELSE IF HasPrefix(authHeader, "Bearer ")
            THEN [err |-> FALSE,
                  info |-> RegistryInfo(registryDomain, "AuthBearer",
                                        extractTokenURL(authHeader, repository), <<>>)]
            ELSE IF HasPrefix(authHeader, "Basic ")
            THEN [err |-> FALSE,
                  info |-> RegistryInfo(registryDomain, "AuthBasic", <<>>,
                                        extractParam(authHeader, "realm"))]
            ELSE [err |-> TRUE, info |-> NoInfo]
    ELSE [err |-> TRUE, info |-> NoInfo]

\* Everything outside the proxy.
notProxy == <<envVars, policyVars, cacheVars, fnVars, kubeVars>>

\* An append to one handler's list of outbound requests.
Called(h, call) == [calls EXCEPT ![h] = Append(@, call)]

\* The server has started: no request in flight, nothing probed yet.
ProxyIdle ==
    /\ registryCache = <<>>
    /\ pc = [h \in Handlers |-> "idle"]
    /\ req = [h \in Handlers |-> NoDetails]
    /\ regInfo = [h \in Handlers |-> NoInfo]
    /\ authToken = [h \in Handlers |-> ""]
    /\ resp = [h \in Handlers |-> 0]
    /\ calls = [h \in Handlers |-> <<>>]
    /\ served = 0
    /\ rawReq = [h \in Handlers |-> NoRequest]

\* handleDockerRegistry with the return after the 403 left out.
ReceiveNoReturn(h, imageDetails) ==
    /\ pc[h] = "idle"
    /\ served < MaxRequests
    /\ served' = served + 1
    /\ req' = [req EXCEPT ![h] = imageDetails]
    /\ resp' = [resp EXCEPT ![h] =
                  IF isRegistryAllowed(imageDetails.RegistryDomain) THEN 0 ELSE 403]
    /\ pc' = [pc EXCEPT ![h] = "lookup"]
    /\ UNCHANGED <<registryCache, regInfo, authToken, calls, rawReq>>
    /\ UNCHANGED notProxy

\* handleDockerRegistry up to the security check: a registry the policy does
\* not admit is answered 403 and the handler returns.
Receive(h, imageDetails) ==
    /\ pc[h] = "idle"
    /\ served < MaxRequests
    /\ served' = served + 1
    /\ req' = [req EXCEPT ![h] = imageDetails]
    /\ IF isRegistryAllowed(imageDetails.RegistryDomain)
       THEN /\ pc' = [pc EXCEPT ![h] = "lookup"]
            /\ UNCHANGED resp
       ELSE /\ pc' = [pc EXCEPT ![h] = "done"]
            /\ resp' = [resp EXCEPT ![h] = 403]
    /\ UNCHANGED <<registryCache, regInfo, authToken, calls, rawReq>>
    /\ UNCHANGED notProxy

\* getOrDetectRegistry without the read of the cache.
LookupAlwaysMisses(h) ==
    /\ pc[h] = "lookup"
    /\ pc' = [pc EXCEPT ![h] = "probe"]
    /\ UNCHANGED <<registryCache, req, regInfo, authToken, resp, calls, served, rawReq>>
    /\ UNCHANGED notProxy

\* getOrDetectRegistry, the read under RLock: a cached entry is returned.
Lookup(h) ==
    /\ pc[h] = "lookup"
    /\ IF req[h].RegistryDomain \in DOMAIN registryCache
       THEN /\ regInfo' = [regInfo EXCEPT ![h] = registryCache[req[h].RegistryDomain]]
            /\ pc' = [pc EXCEPT ![h] = "auth"]
       ELSE /\ pc' = [pc EXCEPT ![h] = "probe"]
            /\ UNCHANGED regInfo
    /\ UNCHANGED <<registryCache, req, authToken, resp, calls, served, rawReq>>
    /\ UNCHANGED notProxy

\* getOrDetectRegistry, the miss: detectRegistryAuth sends the probe; its
\* failure ends the request with 502.
Probe(h, response) ==
    /\ pc[h] = "probe"
    /\ calls' = Called(h, [kind |-> "probe", host |-> req[h].RegistryDomain,
                           path |-> <<"/v2/">>, auth |-> <<>>, got |-> ""])
    /\ LET r == detectRegistryAuth(req[h].RegistryDomain, req[h].RepositoryName, response)
       IN IF r.err
          THEN /\ resp' = [resp EXCEPT ![h] = 502]
               /\ pc' = [pc EXCEPT ![h] = "done"]
               /\ UNCHANGED regInfo
          ELSE /\ regInfo' = [regInfo EXCEPT ![h] = r.info]
               /\ pc' = [pc EXCEPT ![h] = "store"]
               /\ UNCHANGED resp
    /\ UNCHANGED <<registryCache, req, authToken, served, rawReq>>
    /\ UNCHANGED notProxy

\* getOrDetectRegistry, the write under Lock.
Store(h) ==
    /\ pc[h] = "store"
    /\ registryCache' = [d \in (DOMAIN registryCache) \cup {req[h].RegistryDomain} |->
                           IF d = req[h].RegistryDomain THEN regInfo[h]
                           ELSE registryCache[d]]
    /\ pc' = [pc EXCEPT ![h] = "auth"]
    /\ UNCHANGED <<req, regInfo, authToken, resp, calls, served, rawReq>>
    /\ UNCHANGED notProxy

\* getBearerToken: http.Get fails on an empty URL before anything is sent; a
\* body that decodes gives its "token" member, empty when there is none.
getBearerToken(tokenURL, response) ==
    IF tokenURL = <<>> THEN [err |-> TRUE, Token |-> "", sent |-> FALSE]
    ELSE IF response.err THEN [err |-> TRUE, Token |-> "", sent |-> TRUE]
    ELSE [err |-> FALSE, Token |-> response.Token, sent |-> TRUE]

\* case AuthBearer: fetch the token; a failure ends the request with 401.
FetchToken(h, response) ==
    /\ pc[h] = "auth"
    /\ regInfo[h].AuthMethod = "AuthBearer"
    /\ LET r == getBearerToken(regInfo[h].TokenURL, response)
       IN /\ calls' = IF r.sent
                      THEN Called(h, [kind |-> "token", host |-> <<>>,
                                      path |-> regInfo[h].TokenURL, auth |-> <<>>,
                                      got |-> r.Token])
                      ELSE calls
          /\ IF r.err
             THEN /\ resp' = [resp EXCEPT ![h] = 401]
                  /\ pc' = [pc EXCEPT ![h] = "done"]
                  /\ UNCHANGED authToken
             ELSE /\ authToken' = [authToken EXCEPT ![h] = r.Token]
                  /\ pc' = [pc EXCEPT ![h] = "proxy"]
                  /\ UNCHANGED resp
    /\ UNCHANGED <<registryCache, req, regInfo, served, rawReq>>
    /\ UNCHANGED notProxy

\* case AuthBasic falling through to the proxy.
RefuseBasicFallsThrough(h) ==
    /\ pc[h] = "auth"
    /\ regInfo[h].AuthMethod = "AuthBasic"
    /\ pc' = [pc EXCEPT ![h] = "proxy"]
    /\ UNCHANGED <<registryCache, req, regInfo, authToken, resp, calls, served, rawReq>>
    /\ UNCHANGED notProxy

\* case AuthBasic: not implemented.
RefuseBasic(h) ==
    /\ pc[h] = "auth"
    /\ regInfo[h].AuthMethod = "AuthBasic"
    /\ resp' = [resp EXCEPT ![h] = 501]
    /\ pc' = [pc EXCEPT ![h] = "done"]
    /\ UNCHANGED <<registryCache, req, regInfo, authToken, calls, served, rawReq>>
    /\ UNCHANGED notProxy

\* buildDirector: the upstream request; Authorization is set only for a
\* non-empty token.
Director(registry, repository, digest, bearerToken) ==
    [kind |-> "blob",
     host |-> registry,
     path |-> <<"/v2/">> \o repository \o <<"/blobs/", digest>>,
     auth |-> IF bearerToken # "" THEN <<"Bearer ", bearerToken>> ELSE <<>>,
     got |-> ""]

\* The reverse proxy sends the blob request and relays the upstream status.
ProxyBlob(h, status) ==
    /\ \/ pc[h] = "proxy"
       \/ pc[h] = "auth" /\ regInfo[h].AuthMethod = "AuthNone"
    /\ calls' = Called(h, Director(req[h].RegistryDomain, req[h].RepositoryName,
                                   req[h].LayerDigest, authToken[h]))
    /\ resp' = [resp EXCEPT ![h] = status]
    /\ pc' = [pc EXCEPT ![h] = "done"]
    /\ UNCHANGED <<registryCache, req, regInfo, authToken, served, rawReq>>
    /\ UNCHANGED notProxy

\* The handler has returned; the goroutine's locals are gone.
Finish(h) ==
    /\ pc[h] = "done"
    /\ pc' = [pc EXCEPT ![h] = "idle"]
    /\ req' = [req EXCEPT ![h] = NoDetails]
    /\ regInfo' = [regInfo EXCEPT ![h] = NoInfo]
    /\ authToken' = [authToken EXCEPT ![h] = ""]
    /\ resp' = [resp EXCEPT ![h] = 0]
    /\ calls' = [calls EXCEPT ![h] = <<>>]
    /\ rawReq' = [rawReq EXCEPT ![h] = NoRequest]
    /\ UNCHANGED <<registryCache, served>>
    /\ UNCHANGED notProxy

\* ------------------------------------------------------------------------
\* ConfigDriveCache
\* ------------------------------------------------------------------------

\* Constructor arguments of NewConfigDriveCache and the sizes of the inputs.
ttl == 1
maxSize == 2
MaxPayload == 3
MaxTime == 2
MaxVersion == 2

\* Map keys are Go strings; the empty string is a key like any other.
CacheKeys == {"", "a", "b"}

\* Payloads are byte slices; only their length and identity matter.
Payloads == UNION {[1..n -> {0}] : n \in 0..MaxPayload}

NoCall == [key |-> "", data |-> <<>>, version |-> 0]

\* No Get has just returned.
NoRet == [op |-> "none", key |-> "", data |-> <<>>, ok |-> FALSE]

\* ConfigDriveCacheEntry
CacheEntry(data, version, timestamp) ==
    [Data |-> data, SecretResourceVersion |-> version, Timestamp |-> timestamp]

\* delete(c.cache, key)
MapDelete(m, key) == [k \in (DOMAIN m) \ {key} |-> m[k]]

\* c.cache[key] = entry
MapPut(m, key, entry) ==
    [k \in (DOMAIN m) \cup {key} |-> IF k = key THEN entry ELSE m[k]]

\* Everything outside the cache.
notCache == <<envVars, policyVars, proxyVars, fnVars, kubeVars>>

\* NewConfigDriveCache: an empty map, currentSize zero.
CacheNew ==
    /\ cache = <<>>
    /\ currentSize = 0
    /\ mu = "free"
    /\ setCall = NoCall
    /\ now = 0
    /\ srcVersion = [k \in CacheKeys |-> 1]
    /\ ret = NoRet

\* Get without the staleness check: whatever is in the map is returned.
GetResultNoTtl(key) ==
    IF key \notin DOMAIN cache
    THEN [op |-> "Get", key |-> key, data |-> <<>>, ok |-> FALSE]
    ELSE [op |-> "Get", key |-> key, data |-> cache[key].Data, ok |-> TRUE]

\* Get: under the read lock, absent or older than ttl gives (nil, false).
GetResult(key) ==
    IF key \notin DOMAIN cache
    THEN [op |-> "Get", key |-> key, data |-> <<>>, ok |-> FALSE]
    ELSE IF now - cache[key].Timestamp > ttl
         THEN [op |-> "Get", key |-> key, data |-> <<>>, ok |-> FALSE]
         ELSE [op |-> "Get", key |-> key, data |-> cache[key].Data, ok |-> TRUE]

Get(key) ==
    /\ mu = "free"
    /\ ret' = GetResult(key)
    /\ UNCHANGED <<cache, currentSize, mu, setCall, now, srcVersion>>
    /\ UNCHANGED notCache

\* Set, first part: take the write lock; an existing entry of the key has its
\* length subtracted from currentSize (the entry itself stays in the map).
SetBegin(key, data, secretResourceVersion) ==
    /\ mu = "free"
    /\ mu' = "Set"
    /\ setCall' = [key |-> key, data |-> data, version |-> secretResourceVersion]
    /\ currentSize' = IF key \in DOMAIN cache
                      THEN currentSize - Len(cache[key].Data)
                      ELSE currentSize
    /\ ret' = NoRet
    /\ UNCHANGED <<cache, now, srcVersion>>
    /\ UNCHANGED notCache

\* The loop condition of Set.
MustEvict == currentSize + Len(setCall.data) > maxSize /\ Cardinality(DOMAIN cache) > 0

\* evictOldest's scan: the map is ranged over in an unspecified order and a key
\* replaces the candidate only when strictly older, so the candidate left at
\* the end is any key holding the least timestamp.
OldestKeys ==
    {k \in DOMAIN cache : \A j \in DOMAIN cache : cache[k].Timestamp <= cache[j].Timestamp}

\* evictOldest: the candidate is removed unless it is the empty string.
EvictOldest(oldestKey) ==
    IF oldestKey # ""
    THEN /\ currentSize' = currentSize - Len(cache[oldestKey].Data)
         /\ cache' = MapDelete(cache, oldestKey)
    ELSE UNCHANGED <<cache, currentSize>>

\* Set, one iteration of the eviction loop.
SetEvict ==
    /\ mu = "Set"
    /\ MustEvict
    /\ \E oldestKey \in OldestKeys : EvictOldest(oldestKey)
    /\ ret' = NoRet
    /\ UNCHANGED <<mu, setCall, now, srcVersion>>
    /\ UNCHANGED notCache

\* Set, last part, on the cache: store the new entry stamped time.Now(), add
\* its length, release the lock.
StoreEntry ==
    /\ mu = "Set"
    /\ ~MustEvict
    /\ cache' = MapPut(cache, setCall.key,
                       CacheEntry(setCall.data, setCall.version, now))
    /\ currentSize' = currentSize + Len(setCall.data)
    /\ mu' = "free"
    /\ setCall' = NoCall
    /\ ret' = NoRet
    /\ UNCHANGED <<now, srcVersion>>

\* Set, last part.
SetInsert ==
    /\ StoreEntry
    /\ UNCHANGED notCache

\* Delete that subtracts the length of the entry and leaves it in the map.
DeleteEntryKeepsEntry(key) ==
    /\ mu = "free"
    /\ IF key \in DOMAIN cache
       THEN /\ currentSize' = currentSize - Len(cache[key].Data)
            /\ UNCHANGED cache
       ELSE UNCHANGED <<cache, currentSize>>
    /\ ret' = NoRet
    /\ UNCHANGED <<mu, setCall, now, srcVersion>>

\* Delete on the cache: under the write lock.
DeleteEntry(key) ==
    /\ mu = "free"
    /\ IF key \in DOMAIN cache
       THEN /\ currentSize' = currentSize - Len(cache[key].Data)
            /\ cache' = MapDelete(cache, key)
       ELSE UNCHANGED <<cache, currentSize>>
    /\ ret' = NoRet
    /\ UNCHANGED <<mu, setCall, now, srcVersion>>

\* Delete
Delete(key) ==
    /\ DeleteEntry(key)
    /\ UNCHANGED notCache

\* The keys one tick of cleanup removes.
Expired == {k \in DOMAIN cache : now - cache[k].Timestamp > ttl}

RECURSIVE SumLen(_, _)
\* Total payload length of the entries of m under the keys ks.
SumLen(m, ks) ==
    IF ks = {} THEN 0
    ELSE LET k == CHOOSE x \in ks : TRUE
         IN Len(m[k].Data) + SumLen(m, ks \ {k})

\* cleanup: one tick of the background sweep, under the write lock.
Sweep ==
    /\ mu = "free"
    /\ currentSize' = currentSize - SumLen(cache, Expired)
    /\ cache' = [k \in (DOMAIN cache) \ Expired |-> cache[k]]
    /\ ret' = NoRet
    /\ UNCHANGED <<mu, setCall, now, srcVersion>>
    /\ UNCHANGED notCache

\* Time passes, whether or not the lock is held.
Tick ==
    /\ now < MaxTime
    /\ now' = now + 1
    /\ ret' = NoRet
    /\ UNCHANGED <<cache, currentSize, mu, setCall, srcVersion>>
    /\ UNCHANGED notCache

\* The secret behind a key is updated: its resource version changes. (An
\* update during a Set call leaves the same state as one right after it.)
SourceChange(key) ==
    /\ mu = "free"
    /\ srcVersion[key] < MaxVersion
    /\ srcVersion' = [srcVersion EXCEPT ![key] = @ + 1]
    /\ ret' = NoRet
    /\ UNCHANGED <<cache, currentSize, mu, setCall, now>>
    /\ UNCHANGED notCache

\* Any sequence and interleaving of callers; the secrets do not change.
CacheNext ==
    \/ \E key \in CacheKeys : Get(key)
    \/ \E key \in CacheKeys, data \in Payloads : SetBegin(key, data, srcVersion[key])
    \/ SetEvict
    \/ SetInsert
    \/ \E key \in CacheKeys : Delete(key)
    \/ Sweep
    \/ Tick

CacheInit ==
    /\ KubeIdle
    /\ CacheNew
    /\ allowList = <<>>
    /\ blockList = <<>>
    /\ PolicyIdle
    /\ ProxyIdle
    /\ FnIdle

CacheSpec == CacheInit /\ [][CacheNext]_vars

\* The keys and payloads of the callers when the secrets change as well.
VersionKeys == {"a", "b"}

VersionPayloads == {p \in Payloads : Len(p) \in {1, maxSize}}

\* Callers store a payload under the version of the secret they built it from.
CacheVersionNext ==
    \/ \E key \in VersionKeys : Get(key)
    \/ \E key \in VersionKeys, data \in VersionPayloads : SetBegin(key, data, srcVersion[key])
    \/ SetEvict
    \/ SetInsert
    \/ \E key \in VersionKeys : Delete(key)
    \/ Sweep
    \/ Tick
    \/ \E key \in VersionKeys : SourceChange(key)

CacheVersionSpec == CacheInit /\ [][CacheVersionNext]_vars

\* isRegistryAllowed on every domain under every pair of list values.
PolicyInit ==
    /\ KubeIdle
    /\ allowList \in ListStrings
    /\ blockList \in ListStrings
    /\ PolicyIdle
    /\ ProxyIdle
    /\ CacheNew
    /\ FnIdle

PolicyNext == \E registry \in PolicyDomains : CheckRegistry(registry)

PolicySpec == PolicyInit /\ [][PolicyNext]_vars

\* The values of ALLOWED_REGISTRIES and BLOCKED_REGISTRIES the server runs under.
EnvConfigs ==
    {[allow |-> <<>>, block |-> <<>>],
     [allow |-> <<"a">>, block |-> <<"a">>],
     [allow |-> <<>>, block |-> <<"b">>],
     [allow |-> <<"a", ",", "b">>, block |-> <<>>]}

\* The image proxy server under one environment.
Init ==
    /\ KubeIdle
    /\ \E e \in EnvConfigs : allowList = e.allow /\ blockList = e.block
    /\ PolicyIdle
    /\ ProxyIdle
    /\ CacheNew
    /\ FnIdle

\* Requests arrive at any time and are served concurrently; the registries
\* answer as they please.
Next ==
    \/ \E h \in Handlers, imageDetails \in ImageDetailsSet : Receive(h, imageDetails)
    \/ \E h \in Handlers : Lookup(h)
    \/ \E h \in Handlers, response \in ProbeResponses : Probe(h, response)
    \/ \E h \in Handlers : Store(h)
    \/ \E h \in Handlers, response \in TokenResponses : FetchToken(h, response)
    \/ \E h \in Handlers : RefuseBasic(h)
    \/ \E h \in Handlers, status \in BlobStatuses : ProxyBlob(h, status)
    \/ \E h \in Handlers : Finish(h)

Spec == Init /\ [][Next]_vars

\* ------------------------------------------------------------------------
\* Properties of RegistryPolicy
\* ------------------------------------------------------------------------

\* d is an item of the comma-separated list: some stretch of list that runs
\* from a comma (or the start) to a comma (or the end) without a comma inside
\* is d with blanks around it, d itself neither starting nor ending in a blank.
ListMember(d, list) ==
    \E i \in 1..(Len(list) + 1) : \E j \in (i - 1)..Len(list) :
        /\ i = 1 \/ list[i - 1] = ","
        /\ j = Len(list) \/ list[j + 1] = ","
        /\ \A t \in i..j : list[t] # ","
        /\ \E a \in i..(j + 1) : \E b \in (a - 1)..j :
              /\ \A t \in i..(a - 1) : list[t] = " "
              /\ \A t \in (b + 1)..j : list[t] = " "
              /\ SubSeq(list, a, b) = d
              /\ d # <<>> => (d[1] # " " /\ d[Len(d)] # " ")

\* C1: with a non-empty ALLOWED_REGISTRIES, isRegistryAllowed(domain) is true
\* exactly when domain is an item of the allow-list, whatever
\* BLOCKED_REGISTRIES holds.
C1_AllowListPrecedence ==
    (polRes # "none" /\ allowList # <<>>) =>
        (polRes = "allow" <=> ListMember(polArg, allowList))

\* C1 witness: a domain on both lists has been admitted.
C1_Witness ==
    /\ polRes = "allow"
    /\ allowList # <<>>
    /\ blockList # <<>>
    /\ ListMember(polArg, blockList)
    /\ polArg # <<>>

\* C2: with an empty ALLOWED_REGISTRIES, isRegistryAllowed(domain) is false
\* for every domain when BLOCKED_REGISTRIES is empty too, and otherwise true
\* exactly for the domains that are not items of the block-list.
C2_NoAllowList ==
    (polRes # "none" /\ allowList = <<>>) =>
        IF blockList = <<>>
        THEN polRes = "deny"
        ELSE (polRes = "allow" <=> ~ListMember(polArg, blockList))

\* C2 witness: with neither list set a domain has been refused.
C2_Witness ==
    /\ polRes = "deny"
    /\ allowList = <<>>
    /\ blockList = <<>>
    /\ polArg # <<>>

\* ------------------------------------------------------------------------
\* Properties of the image proxy
\* ------------------------------------------------------------------------

\* The outbound requests of handler h, by kind, in the order they were made.
Kinds(h) == [i \in 1..Len(calls[h]) |-> calls[h][i].kind]

\* Position of a kind of outbound request in a request's sequence of steps.
Rank(kind) == CASE kind = "probe" -> 1 [] kind = "token" -> 2 [] kind = "blob" -> 3

\* A request for a registry the policy does not admit is answered 403 at once
\* and never makes an outbound request.
DeniedHasNoCalls ==
    \A h \in Handlers :
        (pc[h] # "idle" /\ ~isRegistryAllowed(req[h].RegistryDomain)) =>
            (pc[h] = "done" /\ resp[h] = 403 /\ calls[h] = <<>>)

\* Only refused requests are answered 403.
ForbiddenOnlyIfDenied ==
    \A h \in Handlers : resp[h] = 403 => ~isRegistryAllowed(req[h].RegistryDomain)

\* Probe, token fetch and blob request are made in that order, each at most once.
CallsInOrder ==
    \A h \in Handlers : \A i, j \in 1..Len(calls[h]) :
        i < j => Rank(Kinds(h)[i]) < Rank(Kinds(h)[j])

\* The step that answers 403 leaves the registry cache as it was.
DenialKeepsCache ==
    \A h \in Handlers :
        (resp[h] # 403 /\ resp'[h] = 403) => registryCache' = registryCache

\* C3: a request whose registry the policy does not admit is answered 403,
\* makes no outbound request and leaves the registry cache unchanged; an
\* admitted request probes, fetches the token and proxies in that order.
C3_AdmissionFirst ==
    /\ [](DeniedHasNoCalls /\ ForbiddenOnlyIfDenied /\ CallsInOrder)
    /\ [][DenialKeepsCache]_vars

\* C3 witness: one request has been refused with 403 while another, admitted,
\* has probed, fetched a token and sent its blob request.
C3_Witness ==
    \E h1, h2 \in Handlers :
        /\ resp[h1] = 403
        /\ calls[h1] = <<>>
        /\ Kinds(h2) = <<"probe", "token", "blob">>

\* The token URL the challenge of a bearer registry gives for a repository.
ScopedTokenURLs(repository) ==
    {extractTokenURL(BearerChallenge, repository),
     extractTokenURL(BearerNoService, repository)}

\* C4: a request proxied to a bearer registry fetched its token from
\* realm?service=<service>&scope=repository:<R>:pull with <R> the repository
\* of that request.
C4_TokenScope ==
    \A h \in Handlers : \A i, j \in 1..Len(calls[h]) :
        (calls[h][i].kind = "token" /\ calls[h][j].kind = "blob") =>
            calls[h][i].path \in ScopedTokenURLs(req[h].RepositoryName)

\* C5: a blob request to a registry classified as bearer goes to
\* /v2/<repository>/blobs/<digest> on the registry's host and carries
\* Authorization: Bearer <token>, the non-empty token the token endpoint
\* returned for this request.
C5_BearerHeader ==
    \A h \in Handlers : \A j \in 1..Len(calls[h]) :
        (calls[h][j].kind = "blob" /\ regInfo[h].AuthMethod = "AuthBearer") =>
            /\ calls[h][j].host = req[h].RegistryDomain
            /\ calls[h][j].path =
                  <<"/v2/">> \o req[h].RepositoryName \o <<"/blobs/", req[h].LayerDigest>>
            /\ \E i \in 1..(j - 1) :
                  /\ calls[h][i].kind = "token"
                  /\ calls[h][i].got # ""
                  /\ calls[h][j].auth = <<"Bearer ", calls[h][i].got>>

\* ------------------------------------------------------------------------
\* Properties of ConfigDriveCache
\* ------------------------------------------------------------------------

\* Sum of len(Data) over the entries physically in the map.
PayloadSum == SumLen(cache, DOMAIN cache)

\* C6: in every reachable state the payload lengths of the entries present
\* in the cache add up to at most maxSize.
C6_SizeBound == PayloadSum <= maxSize

\* C7: whenever no Set call is in progress, currentSize (what Size() reports)
\* equals the sum of len(Data) over the entries in the map.
C7_ExactAccounting == mu = "free" => currentSize = PayloadSum

\* C8: a Get that has just returned gave ok=false if the key is absent or the
\* entry is older than ttl (even though still in the map), and otherwise gave
\* ok=true with the stored payload.
C8_GetStaleness ==
    ret.op = "Get" =>
        IF ret.key \in DOMAIN cache /\ now - cache[ret.key].Timestamp <= ttl
        THEN ret.ok /\ ret.data = cache[ret.key].Data
        ELSE ~ret.ok

\* C8 witness: Get has just refused an expired entry that no sweep has
\* removed from the map yet.
C8_Witness ==
    /\ ret.op = "Get"
    /\ ~ret.ok
    /\ ret.key \in DOMAIN cache
    /\ Len(cache[ret.key].Data) > 0

\* C9: a Set call removes entries only while the payload does not fit, one per
\* step and each at least as old as every entry it leaves in the map, and it
\* inserts only once currentSize + len(payload) <= maxSize.
C9_EvictionOrder ==
    [][mu = "Set" =>
        /\ (DOMAIN cache' # DOMAIN cache /\ mu' = "Set") =>
              \E k \in DOMAIN cache :
                 /\ DOMAIN cache' = (DOMAIN cache) \ {k}
                 /\ \A j \in DOMAIN cache' : cache[k].Timestamp <= cache[j].Timestamp
        /\ (currentSize + Len(setCall.data) <= maxSize /\ mu' = "Set") =>
              DOMAIN cache' = DOMAIN cache
        /\ mu' = "free" => currentSize + Len(setCall.data) <= maxSize
      ]_vars

\* C10: a payload that Get has just returned was stored under the version the
\* key's secret has now.
C10_VersionInvalidation ==
    (ret.op = "Get" /\ ret.ok) =>
        cache[ret.key].SecretResourceVersion = srcVersion[ret.key]

\* ------------------------------------------------------------------------
\* Image reference parsing (internal/uki, internal/controller)
\* ------------------------------------------------------------------------

\* Longest image reference tried.
MaxRefLen == 7

\* The characters of a reference: a name character and the three separators.
RefChars == {"n", ":", "/", "@"}

Refs == UNION {[1..n -> RefChars] : n \in 0..MaxRefLen}

\* Everything outside one call of the resolution code.
notFn == <<envVars, policyVars, proxyVars, cacheVars, kubeVars>>

\* strings.LastIndex(s, c) for a one-character c. Positions count from 1 and
\* 0 stands for Go's -1, so that every comparison of two positions is kept.
LastIndex(s, c) ==
    IF \E i \in 1..Len(s) : s[i] = c
    THEN CHOOSE i \in 1..Len(s) : s[i] = c /\ \A j \in (i + 1)..Len(s) : s[j] # c
    ELSE 0

\* strings.Cut(s, sep) for a one-character sep: the cut is at the first sep.
Cut(s, sep) ==
    LET i == IndexFrom(s, sep, 1)
    IN IF i = 0 THEN [before |-> s, after |-> <<>>, found |-> FALSE]
       ELSE [before |-> SubSeq(s, 1, i - 1), after |-> SubSeq(s, i + 1, Len(s)),
             found |-> TRUE]

\* strings.TrimSuffix
TrimSuffix(s, suffix) ==
    IF Len(s) >= Len(suffix) /\ SubSeq(s, Len(s) - Len(suffix) + 1, Len(s)) = suffix
    THEN SubSeq(s, 1, Len(s) - Len(suffix))
    ELSE s

\* lastTagSeparatorIndex taking the first ':' of the reference.
lastTagSeparatorIndexFirstColon(ref) == IndexFrom(ref, ":", 1)

\* lastTagSeparatorIndex: the last ':' when it stands after the last '/',
\* else none (0 for Go's -1).
lastTagSeparatorIndex(ref) ==
    LET lastSlash == LastIndex(ref, "/")
        lastColon == LastIndex(ref, ":")
    IN IF lastColon > lastSlash THEN lastColon ELSE 0

UKIError == [err |-> TRUE, repository |-> <<>>, imageRef |-> <<>>]

\* parseOCIReferenceForUKI with the tag left in the repository of a
\* reference that has a digest.
parseOCIReferenceForUKIKeepTag(image) ==
    LET c == Cut(image, "@")
    IN IF c.found
       THEN IF c.before = <<>> \/ c.after = <<>> THEN UKIError
            ELSE [err |-> FALSE, repository |-> c.before,
                  imageRef |-> c.before \o <<"@">> \o c.after]
       ELSE LET tagSep == lastTagSeparatorIndex(image)
            IN IF tagSep = 0 THEN UKIError
               ELSE IF SubSeq(image, 1, tagSep - 1) = <<>>
                       \/ SubSeq(image, tagSep + 1, Len(image)) = <<>>
               THEN UKIError
               ELSE [err |-> FALSE, repository |-> SubSeq(image, 1, tagSep - 1),
                     imageRef |-> image]

\* parseOCIReferenceForUKI
parseOCIReferenceForUKI(image) ==
    LET c == Cut(image, "@")
        base == c.before
        digest == c.after
    IN IF c.found
       THEN IF base = <<>> \/ digest = <<>> THEN UKIError
            ELSE LET tagSep == lastTagSeparatorIndex(base)
                     repository == IF tagSep > 0 THEN SubSeq(base, 1, tagSep - 1)
                                   ELSE base
                 IN IF repository = <<>> THEN UKIError
                    ELSE [err |-> FALSE, repository |-> repository,
                          imageRef |-> base \o <<"@">> \o digest]
       ELSE LET tagSep == lastTagSeparatorIndex(image)
            IN IF tagSep = 0 THEN UKIError
               ELSE LET repository == SubSeq(image, 1, tagSep - 1)
                        tag == SubSeq(image, tagSep + 1, Len(image))
                    IN IF repository = <<>> \/ tag = <<>> THEN UKIError
                       ELSE [err |-> FALSE, repository |-> repository,
                             imageRef |-> image]

SplitError == [err |-> TRUE, imageName |-> <<>>, version |-> <<>>]

\* getImageDetailsFromConfig: the image name and version it hands to
\* getLayerDigestsFromNestedManifest and writes into the three URLs.
getImageDetailsFromConfig(image) ==
    LET imageDetails == Split(image, ":")
    IN IF Len(imageDetails) # 2 THEN SplitError
       ELSE [err |-> FALSE, imageName |-> imageDetails[1], version |-> imageDetails[2]]

\* constructBootISOURL: the image name and version it hands to
\* getISOLayerDigest and writes into the URL.
constructBootISOURL(imageRef) ==
    LET imageDetails == Split(imageRef, ":")
    IN IF Len(imageDetails) < 2 THEN SplitError
       ELSE LET version == imageDetails[Len(imageDetails)]
            IN [err |-> FALSE, imageName |-> TrimSuffix(imageRef, <<":">> \o version),
                version |-> version]

\* One call of each function on the reference at hand.
ParseUKI ==
    /\ fnCall.fn = ""
    /\ fnCall' = [fnCall EXCEPT !.fn = "parseOCIReferenceForUKI"]
    /\ fnRet' = parseOCIReferenceForUKI(fnCall.arg)
    /\ UNCHANGED notFn

ParsePXE ==
    /\ fnCall.fn = ""
    /\ fnCall' = [fnCall EXCEPT !.fn = "getImageDetailsFromConfig"]
    /\ fnRet' = getImageDetailsFromConfig(fnCall.arg)
    /\ UNCHANGED notFn

ParseISO ==
    /\ fnCall.fn = ""
    /\ fnCall' = [fnCall EXCEPT !.fn = "constructBootISOURL"]
    /\ fnRet' = constructBootISOURL(fnCall.arg)
    /\ UNCHANGED notFn

\* Any reference may be configured.
RefInit ==
    /\ KubeIdle
    /\ allowList = <<>>
    /\ blockList = <<>>
    /\ PolicyIdle
    /\ ProxyIdle
    /\ CacheNew
    /\ fnCall \in [fn : {""}, arg : Refs]
    /\ fnRet = [err |-> FALSE]

\* The reference goes through one of the three call sites.
RefNext ==
    \/ ParseUKI
    \/ ParsePXE
    \/ ParseISO

RefSpec == RefInit /\ [][RefNext]_vars

\* ------------------------------------------------------------------------
\* Properties of the reference parsers
\* ------------------------------------------------------------------------

\* A non-empty run of name characters.
IsName(s) == s # <<>> /\ \A i \in 1..Len(s) : s[i] = "n"

\* A non-empty path of names and slashes.
IsPath(s) == s # <<>> /\ \A i \in 1..Len(s) : s[i] \in {"n", "/"}

\* s is host:port/path:tag with the three separators at i, j and k.
HostPortPathTag(s, i, j, k) ==
    /\ i < j /\ j < k
    /\ s[i] = ":" /\ s[j] = "/" /\ s[k] = ":"
    /\ IsName(SubSeq(s, 1, i - 1))
    /\ IsName(SubSeq(s, i + 1, j - 1))
    /\ IsPath(SubSeq(s, j + 1, k - 1))
    /\ IsName(SubSeq(s, k + 1, Len(s)))

\* C12: parseOCIReferenceForUKI on host:port/path:tag succeeds with
\* repository host:port/path and gives the input back as image reference.
C12_RegistryPort ==
    fnCall.fn = "parseOCIReferenceForUKI" =>
        \A i, j, k \in 1..Len(fnCall.arg) :
            HostPortPathTag(fnCall.arg, i, j, k) =>
                /\ ~fnRet.err
                /\ fnRet.repository = SubSeq(fnCall.arg, 1, k - 1)
                /\ fnRet.imageRef = fnCall.arg

C12_Witness ==
    /\ fnCall.fn = "parseOCIReferenceForUKI"
    /\ \E i, j, k \in 1..Len(fnCall.arg) : HostPortPathTag(fnCall.arg, i, j, k)
    /\ ~fnRet.err
    /\ fnRet.repository = <<"n", ":", "n", "/", "n">>

\* A repository name, with or without registry host and port: every ':' in
\* it is a port separator, so a '/' follows it.
IsRepoName(s) ==
    /\ s # <<>>
    /\ \A i \in 1..Len(s) :
          /\ s[i] \in {"n", "/", ":"}
          /\ s[i] = ":" => \E j \in (i + 1)..Len(s) : s[j] = "/"

\* A digest, algorithm:hex.
IsDigest(s) == s # <<>> /\ \A i \in 1..Len(s) : s[i] \in {"n", ":"}

\* s is name@digest with the '@' at a.
NameDigest(s, a) ==
    /\ s[a] = "@"
    /\ IsRepoName(SubSeq(s, 1, a - 1))
    /\ IsDigest(SubSeq(s, a + 1, Len(s)))

\* s is name:tag@digest with the ':' at k and the '@' at a.
NameTagDigest(s, k, a) ==
    /\ k < a
    /\ s[k] = ":" /\ s[a] = "@"
    /\ IsRepoName(SubSeq(s, 1, k - 1))
    /\ IsName(SubSeq(s, k + 1, a - 1))
    /\ IsDigest(SubSeq(s, a + 1, Len(s)))

\* C13: parseOCIReferenceForUKI on name@digest and on name:tag@digest
\* succeeds with repository name, without tag and digest, and gives the input
\* back as image reference.
C13_DigestReference ==
    fnCall.fn = "parseOCIReferenceForUKI" =>
        \A k, a \in 1..Len(fnCall.arg) :
            /\ NameDigest(fnCall.arg, a) =>
                  /\ ~fnRet.err
                  /\ fnRet.repository = SubSeq(fnCall.arg, 1, a - 1)
                  /\ fnRet.imageRef = fnCall.arg
            /\ NameTagDigest(fnCall.arg, k, a) =>
                  /\ ~fnRet.err
                  /\ fnRet.repository = SubSeq(fnCall.arg, 1, k - 1)
                  /\ fnRet.imageRef = fnCall.arg

C13_Witness ==
    /\ fnCall.fn = "parseOCIReferenceForUKI"
    /\ \E k, a \in 1..Len(fnCall.arg) :
          /\ NameTagDigest(fnCall.arg, k, a)
          /\ IndexFrom(fnCall.arg, ":", a) > 0
          /\ IsName(SubSeq(fnCall.arg, 1, k - 1))
          /\ fnRet.repository = SubSeq(fnCall.arg, 1, k - 1)
    /\ ~fnRet.err
    /\ fnRet.imageRef = <<"n", ":", "n", "@", "n", ":", "n">>

\* The part of a reference before its first '@', the whole when it has none.
BaseOf(s) == Cut(s, "@").before

\* s has neither a digest nor a tag: no '@', and no ':' after the last '/'.
NoTagNoDigest(s) == ~Cut(s, "@").found /\ LastIndex(s, ":") <= LastIndex(s, "/")

\* s has a ':' with nothing after it, before the end or before the '@'.
EmptyTag(s) == BaseOf(s) # <<>> /\ BaseOf(s)[Len(BaseOf(s))] = ":"

\* s has an '@' with nothing after it.
EmptyDigest(s) == Cut(s, "@").found /\ Cut(s, "@").after = <<>>

\* s has nothing before its tag or digest.
EmptyRepository(s) ==
    \/ BaseOf(s) = <<>>
    \/ /\ BaseOf(s)[1] = ":"
       /\ \A i \in 2..Len(BaseOf(s)) : BaseOf(s)[i] = "n"

\* C14: parseOCIReferenceForUKI returns an error for a reference without tag
\* and digest, with an empty tag or an empty digest, or with an empty
\* repository.
C14_MalformedReference ==
    (/\ fnCall.fn = "parseOCIReferenceForUKI"
     /\ \/ NoTagNoDigest(fnCall.arg)
        \/ EmptyTag(fnCall.arg)
        \/ EmptyDigest(fnCall.arg)
        \/ EmptyRepository(fnCall.arg))
    => fnRet.err

\* s is host:port/path, without tag, with the two separators at i and j.
HostPortPath(s, i, j) ==
    /\ i < j
    /\ s[i] = ":" /\ s[j] = "/"
    /\ IsName(SubSeq(s, 1, i - 1))
    /\ IsName(SubSeq(s, i + 1, j - 1))
    /\ IsPath(SubSeq(s, j + 1, Len(s)))

\* The image name and the version a call site took from the reference.
SplitOf(fn, r) ==
    IF fn = "parseOCIReferenceForUKI"
    THEN [imageName |-> r.repository, version |-> <<>>]
    ELSE [imageName |-> r.imageName, version |-> r.version]

\* C15: each of the three call sites splits host:port/path:tag into image
\* name host:port/path and version tag, and rejects host:port/path.
C15_PortNeverTagSeparator ==
    fnCall.fn # "" =>
        \A i, j, k \in 1..Len(fnCall.arg) :
            /\ HostPortPathTag(fnCall.arg, i, j, k) =>
                  /\ ~fnRet.err
                  /\ SplitOf(fnCall.fn, fnRet).imageName = SubSeq(fnCall.arg, 1, k - 1)
                  /\ fnCall.fn # "parseOCIReferenceForUKI" =>
                        SplitOf(fnCall.fn, fnRet).version =
                            SubSeq(fnCall.arg, k + 1, Len(fnCall.arg))
            /\ HostPortPath(fnCall.arg, i, j) => fnRet.err

\* ------------------------------------------------------------------------
\* Manifest resolution (internal/uki, internal/controller)
\* ------------------------------------------------------------------------

\* Most entries of an image index, most layers of a manifest, largest size
\* of a manifest or index in bytes.
MaxEntries == 2
MaxLayers == 3
MaxBlob == 1

\* r.Architecture, the target, and the architectures the entries are for.
Architectures == {"arm64", "ppc64le"}

\* Entries of an index: Platform ("nil" for a nil pointer, else
\* Platform.Architecture) and the annotations cname and architecture.
EntryKinds ==
    {[Platform |-> "nil",   cname |-> <<>>,                  architecture |-> ""],
     [Platform |-> "amd64", cname |-> <<>>,                  architecture |-> ""],
     [Platform |-> "arm64", cname |-> <<>>,                  architecture |-> ""],
     [Platform |-> "nil",   cname |-> <<"metal_pxe", "-x">>, architecture |-> "arm64"],
     [Platform |-> "amd64", cname |-> <<"metal_pxe", "-x">>, architecture |-> "amd64"],
     [Platform |-> "arm64", cname |-> <<"kvm", "-x">>,       architecture |-> "arm64"]}

\* Layers of a manifest: MediaType and the annotation
\* org.opencontainers.image.title (empty when the layer has none).
LayerKinds ==
    [MediaType : {"MediaTypeISO", "MediaTypeUKI", "MediaTypeKernel", "MediaTypeInitrd",
                  "MediaTypeSquashFS", "MediaTypeKernelOld", "MediaTypeInitrdOld",
                  "MediaTypeSquashFSOld"},
     title : {<<>>}]
    \cup [MediaType : {"other"}, title : {<<>>, <<"boot", ".iso">>}]

\* A layer list in which every kind of artifact is found.
AllLayers ==
    <<[MediaType |-> "MediaTypeKernel", title |-> <<>>],
      [MediaType |-> "MediaTypeInitrd", title |-> <<>>],
      [MediaType |-> "MediaTypeSquashFS", title |-> <<>>],
      [MediaType |-> "MediaTypeUKI", title |-> <<>>],
      [MediaType |-> "MediaTypeISO", title |-> <<>>]>>

Indexes == UNION {[1..n -> EntryKinds] : n \in 0..MaxEntries}

LayerLists == UNION {[1..n -> LayerKinds] : n \in 0..MaxLayers}

\* What the registry holds under a reference and how it serves it: the
\* resolved descriptor (an index or a manifest, with its declared size), the
\* number of bytes a fetch of it reads, the entries of the index with the
\* size each declares, the number of bytes a fetch of a nested manifest
\* reads, and the layers of the manifests.
IndexImages ==
    [architecture : Architectures,
     MediaType : {"MediaTypeImageIndex"},
     Size : 1..MaxBlob, read : 0..MaxBlob,
     Manifests : Indexes,
     nestedSize : 1..MaxBlob, nestedRead : 0..MaxBlob,
     Layers : {AllLayers}]

ManifestImages ==
    [architecture : {"arm64"},
     MediaType : {"MediaTypeImageManifest"},
     Size : {MaxBlob}, read : (MaxBlob - 1)..MaxBlob,
     Manifests : {<<>>},
     nestedSize : {MaxBlob}, nestedRead : {MaxBlob},
     Layers : LayerLists]

Images == IndexImages \cup ManifestImages

\* Digests: of the resolved descriptor, of entry i of the index, of nothing.
TopDigest == [of |-> "top", n |-> 0]

EntryDigest(i) == [of |-> "manifest", n |-> i]

NoDigest == [of |-> "", n |-> 0]

\* The digest of layer i of the manifest with digest m, and the empty string.
LayerDigest(m, i) == [manifest |-> m, layer |-> i]

NoLayerDigest == [manifest |-> NoDigest, layer |-> 0]

\* ocispec.Descriptor: the one Resolve returns, entry i of the index, the
\* zero value. read is the number of bytes a fetch of its content gives.
TopDescriptor(image) ==
    [Digest |-> TopDigest, Size |-> image.Size, read |-> image.read,
     Platform |-> "nil", cname |-> <<>>, architecture |-> ""]

EntryDescriptor(image, i) ==
    [Digest |-> EntryDigest(i), Size |-> image.nestedSize, read |-> image.nestedRead,
     Platform |-> image.Manifests[i].Platform, cname |-> image.Manifests[i].cname,
     architecture |-> image.Manifests[i].architecture]

EmptyDescriptor ==
    [Digest |-> NoDigest, Size |-> 0, read |-> 0,
     Platform |-> "nil", cname |-> <<>>, architecture |-> ""]

\* indexManifest.Manifests after json.Unmarshal
IndexManifest(image) == [i \in 1..Len(image.Manifests) |-> EntryDescriptor(image, i)]

\* The least and the greatest of a non-empty set of positions.
Min(S) == CHOOSE i \in S : \A j \in S : i <= j

Max(S) == CHOOSE i \in S : \A j \in S : i >= j

\* fetchContent of internal/uki and of the PXE controller: the content is
\* refused when its length is not the descriptor's size.
fetchContent(desc) == [err |-> desc.read # desc.Size]

\* VirtualMediaBootConfigReconciler.fetchContent: the content is returned
\* whatever its length.
VirtualMediaFetchContent(desc) == [err |-> FALSE]

\* findManifestByArchitecture taking the first entry that has a platform.
findManifestByArchitectureAnyPlatform(indexManifest, architecture) ==
    LET hits == {i \in 1..Len(indexManifest) : indexManifest[i].Platform # "nil"}
    IN IF hits = {} THEN [entry |-> EmptyDescriptor, found |-> FALSE]
       ELSE [entry |-> indexManifest[Min(hits)], found |-> TRUE]

\* findManifestByArchitecture: the first entry with a platform of the
\* architecture.
findManifestByArchitecture(indexManifest, architecture) ==
    LET hits == {i \in 1..Len(indexManifest) :
                    /\ indexManifest[i].Platform # "nil"
                    /\ indexManifest[i].Platform = architecture}
    IN IF hits = {} THEN [entry |-> EmptyDescriptor, found |-> FALSE]
       ELSE [entry |-> indexManifest[Min(hits)], found |-> TRUE]

ResolveError == [err |-> TRUE, digest |-> NoLayerDigest]

\* The layer loop of getUKIDigestFromNestedManifest over the layers of
\* manifest m.
UKILayer(m, layers) ==
    LET hits == {i \in 1..Len(layers) : layers[i].MediaType = "MediaTypeUKI"}
    IN IF hits = {} THEN ResolveError
       ELSE [err |-> FALSE, digest |-> LayerDigest(m, Min(hits))]

\* getUKIDigestFromNestedManifest
getUKIDigestFromNestedManifest(image) ==
    LET desc == TopDescriptor(image)
    IN IF fetchContent(desc).err THEN ResolveError
       ELSE IF image.MediaType = "MediaTypeImageIndex"
       THEN LET t == findManifestByArchitecture(IndexManifest(image), image.architecture)
            IN IF ~t.found THEN ResolveError
               ELSE IF fetchContent(t.entry).err THEN ResolveError
               ELSE UKILayer(t.entry.Digest, image.Layers)
       ELSE UKILayer(desc.Digest, image.Layers)

\* strings.HasSuffix
HasSuffix(s, suffix) ==
    Len(s) >= Len(suffix) /\ SubSeq(s, Len(s) - Len(suffix) + 1, Len(s)) = suffix

\* The layer loop and the fallback of getISOLayerDigest over the layers of
\* manifest m: the first layer that has the ISO media type or a title ending
\* in .iso; failing that, the only layer of a one-layer manifest.
ISOLayer(m, layers) ==
    LET hits == {i \in 1..Len(layers) :
                    \/ layers[i].MediaType = "MediaTypeISO"
                    \/ /\ layers[i].title # <<>>
                       /\ HasSuffix(layers[i].title, <<".iso">>)}
    IN IF hits # {} THEN [err |-> FALSE, digest |-> LayerDigest(m, Min(hits))]
       ELSE IF Len(layers) = 1 THEN [err |-> FALSE, digest |-> LayerDigest(m, 1)]
       ELSE ResolveError

\* getISOLayerDigest
getISOLayerDigest(image) ==
    LET desc == TopDescriptor(image)
        indexManifest == IndexManifest(image)
        hits == {i \in 1..Len(indexManifest) :
                    /\ indexManifest[i].Platform # "nil"
                    /\ indexManifest[i].Platform = image.architecture}
        targetManifestDesc == IF hits = {} THEN EmptyDescriptor
                              ELSE indexManifest[Min(hits)]
    IN IF VirtualMediaFetchContent(desc).err THEN ResolveError
       ELSE IF image.MediaType = "MediaTypeImageIndex"
       THEN IF targetManifestDesc.Digest = NoDigest THEN ResolveError
            ELSE IF VirtualMediaFetchContent(targetManifestDesc).err THEN ResolveError
            ELSE ISOLayer(targetManifestDesc.Digest, image.Layers)
       ELSE ISOLayer(desc.Digest, image.Layers)

PXEError ==
    [err |-> TRUE, kernelDigest |-> NoLayerDigest, initrdDigest |-> NoLayerDigest,
     squashFSDigest |-> NoLayerDigest]

\* What the layer loop of getLayerDigestsFromNestedManifest leaves in a
\* variable that the media types in types assign: the last such layer.
LastLayer(m, layers, types) ==
    LET hits == {i \in 1..Len(layers) : layers[i].MediaType \in types}
    IN IF hits = {} THEN NoLayerDigest ELSE LayerDigest(m, Max(hits))

\* The layer loop without the check for a missing squashfs.
PXELayersNoSquashFSCheck(m, layers) ==
    LET kernelDigest == LastLayer(m, layers, {"MediaTypeKernel", "MediaTypeKernelOld"})
        initrdDigest == LastLayer(m, layers, {"MediaTypeInitrd", "MediaTypeInitrdOld"})
        squashFSDigest ==
            LastLayer(m, layers, {"MediaTypeSquashFS", "MediaTypeSquashFSOld"})
    IN IF kernelDigest = NoLayerDigest \/ initrdDigest = NoLayerDigest
       THEN PXEError
       ELSE [err |-> FALSE, kernelDigest |-> kernelDigest,
             initrdDigest |-> initrdDigest, squashFSDigest |-> squashFSDigest]

\* The layer loop of getLayerDigestsFromNestedManifest and the check after it.
PXELayers(m, layers) ==
    LET kernelDigest == LastLayer(m, layers, {"MediaTypeKernel", "MediaTypeKernelOld"})
        initrdDigest == LastLayer(m, layers, {"MediaTypeInitrd", "MediaTypeInitrdOld"})
        squashFSDigest ==
            LastLayer(m, layers, {"MediaTypeSquashFS", "MediaTypeSquashFSOld"})
    IN IF kernelDigest = NoLayerDigest \/ initrdDigest = NoLayerDigest
          \/ squashFSDigest = NoLayerDigest
       THEN PXEError
       ELSE [err |-> FALSE, kernelDigest |-> kernelDigest,
             initrdDigest |-> initrdDigest, squashFSDigest |-> squashFSDigest]

\* getLayerDigestsFromNestedManifest with the platform pass tried before the
\* legacy pass.
getLayerDigestsFromNestedManifestPlatformFirst(image) ==
    LET desc == TopDescriptor(image)
        indexManifest == IndexManifest(image)
        legacy == {i \in 1..Len(indexManifest) :
                      /\ HasPrefix(indexManifest[i].cname, "metal_pxe")
                      /\ indexManifest[i].architecture = image.architecture}
        hits == {i \in 1..Len(indexManifest) :
                    /\ indexManifest[i].Platform # "nil"
                    /\ indexManifest[i].Platform = image.architecture}
        targetManifestDesc == IF hits # {} THEN indexManifest[Min(hits)]
                              ELSE IF legacy # {} THEN indexManifest[Min(legacy)]
                              ELSE EmptyDescriptor
    IN IF fetchContent(desc).err THEN PXEError
       ELSE IF image.MediaType = "MediaTypeImageIndex"
       THEN IF targetManifestDesc.Digest = NoDigest THEN PXEError
            ELSE IF fetchContent(targetManifestDesc).err THEN PXEError
            ELSE PXELayers(targetManifestDesc.Digest, image.Layers)
       ELSE PXELayers(desc.Digest, image.Layers)

\* getLayerDigestsFromNestedManifest: in an index, the first entry whose
\* cname annotation starts with metal_pxe and whose architecture annotation
\* is the target; when there is none, the first entry with a platform of the
\* target architecture.
getLayerDigestsFromNestedManifest(image) ==
    LET desc == TopDescriptor(image)
        indexManifest == IndexManifest(image)
        legacy == {i \in 1..Len(indexManifest) :
                      /\ HasPrefix(indexManifest[i].cname, "metal_pxe")
                      /\ indexManifest[i].architecture = image.architecture}
        hits == {i \in 1..Len(indexManifest) :
                    /\ indexManifest[i].Platform # "nil"
                    /\ indexManifest[i].Platform = image.architecture}
        targetManifestDesc == IF legacy # {} THEN indexManifest[Min(legacy)]
                              ELSE IF hits # {} THEN indexManifest[Min(hits)]
                              ELSE EmptyDescriptor
    IN IF fetchContent(desc).err THEN PXEError
       ELSE IF image.MediaType = "MediaTypeImageIndex"
       THEN IF targetManifestDesc.Digest = NoDigest THEN PXEError
            ELSE IF fetchContent(targetManifestDesc).err THEN PXEError
            ELSE PXELayers(targetManifestDesc.Digest, image.Layers)
       ELSE PXELayers(desc.Digest, image.Layers)

\* One call of each function on the image at hand.
FindManifest ==
    /\ fnCall.fn = ""
    /\ fnCall' = [fnCall EXCEPT !.fn = "findManifestByArchitecture"]
    /\ fnRet' = findManifestByArchitecture(IndexManifest(fnCall.arg),
                                           fnCall.arg.architecture)
    /\ UNCHANGED notFn

ResolveUKI ==
    /\ fnCall.fn = ""
    /\ fnCall' = [fnCall EXCEPT !.fn = "getUKIDigestFromNestedManifest"]
    /\ fnRet' = getUKIDigestFromNestedManifest(fnCall.arg)
    /\ UNCHANGED notFn

ResolvePXE ==
    /\ fnCall.fn = ""
    /\ fnCall' = [fnCall EXCEPT !.fn = "getLayerDigestsFromNestedManifest"]
    /\ fnRet' = getLayerDigestsFromNestedManifest(fnCall.arg)
    /\ UNCHANGED notFn

ResolveISO ==
    /\ fnCall.fn = ""
    /\ fnCall' = [fnCall EXCEPT !.fn = "getISOLayerDigest"]
    /\ fnRet' = getISOLayerDigest(fnCall.arg)
    /\ UNCHANGED notFn

\* The registry may hold any image under the reference.
ResolveInit ==
    /\ KubeIdle
    /\ allowList = <<>>
    /\ blockList = <<>>
    /\ PolicyIdle
    /\ ProxyIdle
    /\ CacheNew
    /\ fnCall \in [fn : {""}, arg : Images]
    /\ fnRet = [err |-> FALSE]

\* The image is resolved by one of the three controllers.
ResolveNext ==
    \/ FindManifest
    \/ ResolveUKI
    \/ ResolvePXE
    \/ ResolveISO

ResolveSpec == ResolveInit /\ [][ResolveNext]_vars

\* ------------------------------------------------------------------------
\* Properties of manifest resolution
\* ------------------------------------------------------------------------

\* The positions of the entries of the image's index whose platform has the
\* target architecture.
ArchEntries(image) ==
    {i \in 1..Len(image.Manifests) : image.Manifests[i].Platform = image.architecture}

\* C16: findManifestByArchitecture finds the first entry whose platform has
\* the target architecture when there is one and nothing otherwise, and the
\* UKI resolution of an index fails when nothing is found and never reads the
\* manifest of another entry.
C16_ArchitectureSelection ==
    /\ fnCall.fn = "findManifestByArchitecture" =>
          IF ArchEntries(fnCall.arg) # {}
          THEN /\ fnRet.found
               /\ fnRet.entry.Platform = fnCall.arg.architecture
               /\ fnRet.entry.Digest = EntryDigest(Min(ArchEntries(fnCall.arg)))
          ELSE ~fnRet.found
    /\ (/\ fnCall.fn = "getUKIDigestFromNestedManifest"
        /\ fnCall.arg.MediaType = "MediaTypeImageIndex") =>
          IF ArchEntries(fnCall.arg) # {}
          THEN ~fnRet.err =>
                  fnRet.digest.manifest = EntryDigest(Min(ArchEntries(fnCall.arg)))
          ELSE fnRet.err

\* The arm64 entry stands after an amd64 entry and is the one found.
C16_Witness ==
    /\ fnCall.fn = "findManifestByArchitecture"
    /\ fnCall.arg.architecture = "arm64"
    /\ Len(fnCall.arg.Manifests) = 2
    /\ fnCall.arg.Manifests[1].Platform = "amd64"
    /\ fnCall.arg.Manifests[2].Platform = "arm64"
    /\ fnRet.found
    /\ fnRet.entry.Digest = EntryDigest(2)

\* C17: a resolution succeeds only if every manifest and index it fetched
\* had as many bytes as its descriptor declares.
C17_SizeVerification ==
    (/\ fnCall.fn \in {"getUKIDigestFromNestedManifest",
                       "getLayerDigestsFromNestedManifest", "getISOLayerDigest"}
     /\ ~fnRet.err)
    => /\ fnCall.arg.read = fnCall.arg.Size
       /\ fnCall.arg.MediaType = "MediaTypeImageIndex" =>
             fnCall.arg.nestedRead = fnCall.arg.nestedSize

\* The layers of the image that have the ISO media type, and those that have
\* a title ending in .iso.
ExactISO(image) ==
    {i \in 1..Len(image.Layers) : image.Layers[i].MediaType = "MediaTypeISO"}

TitledISO(image) ==
    {i \in 1..Len(image.Layers) : HasSuffix(image.Layers[i].title, <<".iso">>)}

\* C18: the ISO resolution of a manifest returns a layer of the ISO media
\* type when there is one; else a layer with a title ending in .iso when
\* there is one; else the only layer of a one-layer manifest; else it fails.
C18_LayerPriority ==
    (/\ fnCall.fn = "getISOLayerDigest"
     /\ fnCall.arg.MediaType = "MediaTypeImageManifest"
     /\ fnCall.arg.read = fnCall.arg.Size)
    => IF ExactISO(fnCall.arg) # {}
       THEN ~fnRet.err /\ fnRet.digest.layer \in ExactISO(fnCall.arg)
       ELSE IF TitledISO(fnCall.arg) # {}
       THEN ~fnRet.err /\ fnRet.digest.layer \in TitledISO(fnCall.arg)
       ELSE IF Len(fnCall.arg.Layers) = 1
       THEN ~fnRet.err /\ fnRet.digest.layer = 1
       ELSE fnRet.err

\* ------------------------------------------------------------------------
\* The HTTP routes of the image proxy (server/imageproxyserver.go)
\* ------------------------------------------------------------------------

\* Most segments of a path below /httpboot/.
MaxSegments == 3

\* The one goroutine that serves the requests of this part.
ServerHandlers == {"h1"}

\* Values of the query parameters imageName, version and layerDigest of
\* GET /image; a parameter that is missing reads as the empty string.
ImageNames ==
    {<<>>,
     <<"r", ".", "io", "/", "o">>,
     <<"r", ".", "io", "/", "o", ".", "efi">>,
     <<"r", ":", "5", "/", "o", "/", "x">>,
     <<"o", "/", "x">>,
     <<"o">>}

ImageQueries ==
    [imageName : ImageNames, version : {<<>>, <<"v1">>},
     layerDigest : {<<>>, <<"sha256:", "d">>}]

\* Segments of a path below /httpboot/, and the paths made of them.
PathSegments ==
    {<<"r", ".", "io">>, <<"o">>, <<"sha256-", "d", ".", "efi">>, <<"sha256-", "d">>}

RECURSIVE Join(_, _)
\* strings.Join(segments, sep)
Join(segments, sep) ==
    IF segments = <<>> THEN <<>>
    ELSE IF Len(segments) = 1 THEN segments[1]
    ELSE segments[1] \o <<sep>> \o Join(Tail(segments), sep)

HttpBootPaths ==
    {<<"/httpboot/">> \o Join(segments, "/") :
        segments \in UNION {[1..n -> PathSegments] : n \in 0..MaxSegments}}

\* strings.TrimPrefix
TrimPrefix(s, prefix) ==
    IF Len(s) >= Len(prefix) /\ SubSeq(s, 1, Len(prefix)) = prefix
    THEN SubSeq(s, Len(prefix) + 1, Len(s))
    ELSE s

\* strings.Contains for a one-character substring
Contains(s, c) == \E i \in 1..Len(s) : s[i] = c

\* The implicit registry.
DockerHub == <<"registry-1.docker.io">>

\* extractRegistryDomain: the text before the first '/' when there is a '/'
\* and that text has a '.' or a ':', else Docker Hub.
extractRegistryDomain(imageRef) ==
    LET i == IndexFrom(imageRef, "/", 1)
        first == SubSeq(imageRef, 1, i - 1)
    IN IF i = 0 THEN DockerHub
       ELSE IF Contains(first, ".") \/ Contains(first, ":") THEN first
       ELSE DockerHub

\* extractRepository
extractRepository(imageRef, registryDomain) ==
    TrimPrefix(imageRef, registryDomain \o <<"/">>)

ParseError == [err |-> TRUE, details |-> NoDetails]

\* parseImageURL without the check of version.
parseImageURLNoVersion(queries) ==
    LET ociImageName == TrimSuffix(queries.imageName, <<".", "efi">>)
        registryDomain == extractRegistryDomain(ociImageName)
    IN IF queries.imageName = <<>> \/ queries.layerDigest = <<>> THEN ParseError
       ELSE [err |-> FALSE,
             details |-> [RegistryDomain |-> registryDomain,
                          RepositoryName |-> extractRepository(ociImageName, registryDomain),
                          LayerDigest |-> queries.layerDigest]]

\* parseImageURL
parseImageURL(queries) ==
    LET ociImageName == TrimSuffix(queries.imageName, <<".", "efi">>)
        registryDomain == extractRegistryDomain(ociImageName)
    IN IF queries.imageName = <<>> \/ queries.layerDigest = <<>> \/ queries.version = <<>>
       THEN ParseError
       ELSE [err |-> FALSE,
             details |-> [RegistryDomain |-> registryDomain,
                          RepositoryName |-> extractRepository(ociImageName, registryDomain),
                          LayerDigest |-> queries.layerDigest]]

\* parseHttpBootImagePath
parseHttpBootImagePath(path) ==
    LET trimmed == TrimPrefix(path, <<"/httpboot/">>)
        segments == Split(trimmed, "/")
        imageName == Join(SubSeq(segments, 1, Len(segments) - 1), "/")
        registryDomain == extractRegistryDomain(imageName)
        digestSegment == TrimSuffix(segments[Len(segments)], <<".", "efi">>)
    IN IF Len(segments) < 2 THEN ParseError
       ELSE IF ~HasPrefix(digestSegment, "sha256-") THEN ParseError
       ELSE [err |-> FALSE,
             details |-> [RegistryDomain |-> registryDomain,
                          RepositoryName |-> extractRepository(imageName, registryDomain),
                          LayerDigest |->
                              <<"sha256:">> \o TrimPrefix(digestSegment, <<"sha256-">>)]]

\* handleDockerRegistry up to the security check, for the details a route
\* has parsed.
Admit(h, imageDetails) ==
    /\ req' = [req EXCEPT ![h] = imageDetails]
    /\ IF isRegistryAllowed(imageDetails.RegistryDomain)
       THEN /\ pc' = [pc EXCEPT ![h] = "lookup"]
            /\ UNCHANGED resp
       ELSE /\ pc' = [pc EXCEPT ![h] = "done"]
            /\ resp' = [resp EXCEPT ![h] = 403]

\* The handler has answered 404 Resource Not Found and returned.
NotFound(h) ==
    /\ resp' = [resp EXCEPT ![h] = 404]
    /\ pc' = [pc EXCEPT ![h] = "done"]
    /\ UNCHANGED req

\* The handler of /image.
ServeImage(h, queries) ==
    /\ pc[h] = "idle"
    /\ served < MaxRequests
    /\ served' = served + 1
    /\ rawReq' = [rawReq EXCEPT ![h] =
                    [route |-> "/image", imageName |-> queries.imageName,
                     version |-> queries.version, layerDigest |-> queries.layerDigest,
                     path |-> <<>>]]
    /\ LET r == parseImageURL(queries)
       IN IF r.err THEN NotFound(h) ELSE Admit(h, r.details)
    /\ UNCHANGED <<registryCache, regInfo, authToken, calls>>
    /\ UNCHANGED notProxy

\* The handler of /httpboot/.
ServeHttpBoot(h, path) ==
    /\ pc[h] = "idle"
    /\ served < MaxRequests
    /\ served' = served + 1
    /\ rawReq' = [rawReq EXCEPT ![h] =
                    [route |-> "/httpboot/", imageName |-> <<>>, version |-> <<>>,
                     layerDigest |-> <<>>, path |-> path]]
    /\ LET r == parseHttpBootImagePath(path)
       IN IF r.err THEN NotFound(h) ELSE Admit(h, r.details)
    /\ UNCHANGED <<registryCache, regInfo, authToken, calls>>
    /\ UNCHANGED notProxy

\* The server admits the registries r.io and r:5.
ServerInit ==
    /\ KubeIdle
    /\ allowList = <<"r", ".", "io", ",", "r", ":", "5">>
    /\ blockList = <<>>
    /\ PolicyIdle
    /\ ProxyIdle
    /\ CacheNew
    /\ FnIdle

\* Requests come in on both routes and are served one after the other.
ServerNext ==
    \/ \E h \in ServerHandlers, queries \in ImageQueries : ServeImage(h, queries)
    \/ \E h \in ServerHandlers, path \in HttpBootPaths : ServeHttpBoot(h, path)
    \/ \E h \in ServerHandlers : Lookup(h)
    \/ \E h \in ServerHandlers, response \in ProbeResponses : Probe(h, response)
    \/ \E h \in ServerHandlers : Store(h)
    \/ \E h \in ServerHandlers, response \in TokenResponses : FetchToken(h, response)
    \/ \E h \in ServerHandlers : RefuseBasic(h)
    \/ \E h \in ServerHandlers, status \in BlobStatuses : ProxyBlob(h, status)
    \/ \E h \in ServerHandlers : Finish(h)

ServerSpec == ServerInit /\ [][ServerNext]_vars

\* ------------------------------------------------------------------------
\* Properties of the HTTP routes
\* ------------------------------------------------------------------------

\* The registry domain and the repository that an image name stands for:
\* its first segment is the registry when another segment follows and it has
\* a '.' or a ':'; otherwise the registry is Docker Hub and the whole name is
\* the repository.
NamesRegistry(name) ==
    /\ Len(Split(name, "/")) >= 2
    /\ \E i \in 1..Len(Split(name, "/")[1]) : Split(name, "/")[1][i] \in {".", ":"}

DetailsOf(name, digest) ==
    IF NamesRegistry(name)
    THEN [RegistryDomain |-> Split(name, "/")[1],
          RepositoryName |-> SubSeq(name, Len(Split(name, "/")[1]) + 2, Len(name)),
          LayerDigest |-> digest]
    ELSE [RegistryDomain |-> DockerHub, RepositoryName |-> name, LayerDigest |-> digest]

\* The handler has answered 404 without entering handleDockerRegistry.
AnsweredNotFound(h) ==
    /\ pc[h] = "done"
    /\ resp[h] = 404
    /\ req[h].RegistryDomain = <<>>
    /\ req[h].RepositoryName = <<>>
    /\ calls[h] = <<>>

\* Every outbound request of the handler is for the details d.
CallsAreFor(h, d) ==
    \A i \in 1..Len(calls[h]) :
        /\ calls[h][i].kind = "probe" => calls[h][i].host = d.RegistryDomain
        /\ calls[h][i].kind = "blob" =>
              /\ calls[h][i].host = d.RegistryDomain
              /\ calls[h][i].path =
                    <<"/v2/">> \o d.RepositoryName \o <<"/blobs/", d.LayerDigest>>

\* C19: a GET /image with imageName, version or layerDigest empty is
\* answered 404 with no outbound call; with all three present the request is
\* handled for the registry and repository of imageName (less a trailing
\* .efi) and the digest layerDigest.
C19_ImageParameters ==
    \A h \in Handlers :
        rawReq[h].route = "/image" =>
            IF rawReq[h].imageName = <<>> \/ rawReq[h].version = <<>>
               \/ rawReq[h].layerDigest = <<>>
            THEN AnsweredNotFound(h)
            ELSE LET d == DetailsOf(TrimSuffix(rawReq[h].imageName, <<".", "efi">>),
                                    rawReq[h].layerDigest)
                 IN req[h] = d /\ CallsAreFor(h, d)

\* A request without version is answered 404 after an earlier request has
\* gone through to its registry.
C19_Witness ==
    \E h \in Handlers :
        /\ rawReq[h].route = "/image"
        /\ rawReq[h].imageName # <<>>
        /\ rawReq[h].layerDigest # <<>>
        /\ rawReq[h].version = <<>>
        /\ AnsweredNotFound(h)
        /\ registryCache # <<>>

\* The segments of the path of a /httpboot/ request.
SegmentsOf(path) == Split(SubSeq(path, 2, Len(path)), "/")

\* The path has at least two segments and its last segment is
\* sha256-<hex>.efi.
WellFormedPath(path) ==
    LET segments == SegmentsOf(path)
        last == segments[Len(segments)]
    IN /\ Len(segments) >= 2
       /\ HasSuffix(last, <<".", "efi">>)
       /\ last # <<>> /\ last[1] = "sha256-"

\* C20: a GET /httpboot/<path> is answered 404 with nothing proxied unless
\* the path has at least two segments and a last segment sha256-<hex>.efi;
\* an accepted path is handled for the image named by the segments before
\* the last and the digest sha256:<hex>.
C20_HttpBootPath ==
    \A h \in Handlers :
        rawReq[h].route = "/httpboot/" =>
            IF ~WellFormedPath(rawReq[h].path)
            THEN AnsweredNotFound(h)
            ELSE LET segments == SegmentsOf(rawReq[h].path)
                     last == segments[Len(segments)]
                     d == DetailsOf(Join(SubSeq(segments, 1, Len(segments) - 1), "/"),
                                    <<"sha256:">> \o SubSeq(last, 2, Len(last) - 2))
                 IN req[h] = d /\ CallsAreFor(h, d)

\* ------------------------------------------------------------------------
\* Blob response: the ModifyResponse hook of the reverse proxy
\* ------------------------------------------------------------------------

\* Requests the zero-value http.Client sends for one Do before it stops
\* following redirects (net/http's default policy stops at 10).
MaxRedirects == 2

MediaTypeUKI == "application/vnd.ironcore.image.uki"

\* http.Header: every name has its list of values, empty when absent.
HeaderNames ==
    {"Authorization", "Accept", "Location", "Content-Type", "Content-Length",
     "Vary"}

NoHeader == [n \in HeaderNames |-> <<>>]

\* http.Header.Get: the first value, "" when there is none.
HeaderGet(header, name) ==
    IF header[name] = <<>> THEN "" ELSE Head(header[name])

\* An http.Response as the transport hands it over.  A body of known length
\* comes with Content-Length and ContentLength, a chunked one with
\* TransferEncoding and ContentLength -1, and an empty one with neither.
Response(status, location, contentType, vary, length, body) ==
    [StatusCode |-> status,
     Header |-> [NoHeader EXCEPT !["Location"] = location,
                                 !["Content-Type"] = contentType,
                                 !["Vary"] = vary,
                                 !["Content-Length"] =
                                     IF length = "known" THEN <<"5">> ELSE <<>>],
     ContentLength |-> CASE length = "known" -> 5
                         [] length = "chunked" -> -1
                         [] OTHER -> 0,
     TransferEncoding |-> IF length = "chunked" THEN <<"chunked">> ELSE <<>>,
     Body |-> body]

\* What a registry or the server behind a Location may answer.
Responses(body) ==
    {Response(status, location, contentType, vary, length, body) :
        status \in {200, 307, 404},
        location \in {<<>>, <<"https://cdn/blob">>},
        contentType \in {<<>>, <<MediaTypeUKI>>, <<"application/octet-stream">>},
        vary \in {<<>>, <<"Accept", "Origin">>},
        length \in {"known", "chunked", "empty"}}

NoResponse ==
    [StatusCode |-> 0, Header |-> NoHeader, ContentLength |-> 0,
     TransferEncoding |-> <<>>, Body |-> ""]

\* The upstream request as buildDirector leaves it: the client's headers
\* and, for a non-empty token, Authorization.
UpstreamRequests ==
    {[bearerToken |-> bearerToken,
      Header |-> [NoHeader EXCEPT
                      !["Accept"] = accept,
                      !["Authorization"] =
                          IF bearerToken # "" THEN <<"Bearer " \o bearerToken>>
                          ELSE <<>>]] :
        bearerToken \in {"", "t"}, accept \in {<<>>, <<"*/*", "x/y">>}}

\* copyHeaders: every value of source is added to destination.
copyHeaders(source, destination) ==
    [n \in HeaderNames |-> destination[n] \o source[n]]

\* The loop of replaceResponse over one header's values: Set for each value
\* leaves the last one.
SetEach(values, old) ==
    IF values = <<>> THEN old ELSE <<values[Len(values)]>>

\* replaceResponse: the redirected response's headers are set over the
\* original's, then Body and StatusCode are taken from it.
replaceResponse(originalResp, redirectResp) ==
    [originalResp EXCEPT
        !.Header = [n \in HeaderNames |->
                        SetEach(redirectResp.Header[n], originalResp.Header[n])],
        !.Body = redirectResp.Body,
        !.StatusCode = redirectResp.StatusCode]

\* The media type rewrite turned off.
rewriteMediaTypeOff(res) ==
    res

\* buildModifyResponse, "Rewrite media type if it's a UKI".
rewriteMediaType(res) ==
    IF HeaderGet(res.Header, "Content-Type") = MediaTypeUKI
    THEN [res EXCEPT !.Header["Content-Type"] = <<"application/efi">>]
    ELSE res

\* buildModifyResponse after the redirect: media type, Content-Length and
\* Transfer-Encoding.
finishResponse(res) ==
    LET typed == rewriteMediaType(res)
        sized == IF HeaderGet(typed.Header, "Content-Length") = ""
                    /\ typed.ContentLength > 0
                 THEN [typed EXCEPT !.Header["Content-Length"] = <<"5">>]
                 ELSE typed
    IN  IF Len(sized.TransferEncoding) > 0
        THEN [sized EXCEPT !.TransferEncoding = <<>>]
        ELSE sized

\* The hook's locals: its outcome, resp, the GETs the client has sent and
\* the response client.Do returned.
Modified(err, res, gets, redirectResp) ==
    [err |-> err, resp |-> res, gets |-> gets, redirectResp |-> redirectResp]

\* buildModifyResponse up to client.Do: Authorization is set on the
\* response; a 307 without Location fails, one with Location sends the GET
\* with the upstream request's headers; any other status is finished here.
ModifyResponse ==
    /\ fnCall.fn = ""
    /\ LET bearerToken == fnCall.arg.Request.bearerToken
           res == IF bearerToken # ""
                   THEN [fnCall.arg.resp EXCEPT !.Header["Authorization"] =
                                                    <<"Bearer " \o bearerToken>>]
                   ELSE fnCall.arg.resp
       IN  IF res.StatusCode = 307
           THEN IF res.Header["Location"] = <<>>
                THEN /\ fnCall' = [fnCall EXCEPT !.fn = "done"]
                     /\ fnRet' = Modified(TRUE, res, <<>>, NoResponse)
                ELSE /\ fnCall' = [fnCall EXCEPT !.fn = "redirect"]
                     /\ fnRet' = Modified(FALSE, res,
                                     <<[url |-> HeaderGet(res.Header, "Location"),
                                        Header |-> copyHeaders(
                                            fnCall.arg.Request.Header, NoHeader)]>>,
                                     NoResponse)
           ELSE /\ fnCall' = [fnCall EXCEPT !.fn = "done"]
                /\ fnRet' = Modified(FALSE, finishResponse(res), <<>>, NoResponse)
    /\ UNCHANGED notFn

\* client.Do gets an answer.  The client follows a redirect that names a
\* Location with the same headers until its limit, where Do fails; any other
\* answer is what Do returns, and the hook replaces and finishes resp.
Redirected(response) ==
    /\ fnCall.fn = "redirect"
    /\ IF response.StatusCode = 307 /\ response.Header["Location"] # <<>>
       THEN IF Len(fnRet.gets) < MaxRedirects
            THEN /\ fnRet' = [fnRet EXCEPT !.gets =
                      Append(@, [url |-> HeaderGet(response.Header, "Location"),
                                 Header |-> fnRet.gets[1].Header])]
                 /\ UNCHANGED fnCall
            ELSE /\ fnRet' = [fnRet EXCEPT !.err = TRUE]
                 /\ fnCall' = [fnCall EXCEPT !.fn = "done"]
       ELSE /\ fnRet' = [fnRet EXCEPT
                            !.resp = finishResponse(replaceResponse(@, response)),
                            !.redirectResp = response]
            /\ fnCall' = [fnCall EXCEPT !.fn = "done"]
    /\ UNCHANGED notFn

\* client.Do fails: the Location cannot be reached.
RedirectFails ==
    /\ fnCall.fn = "redirect"
    /\ fnRet' = [fnRet EXCEPT !.err = TRUE]
    /\ fnCall' = [fnCall EXCEPT !.fn = "done"]
    /\ UNCHANGED notFn

\* What the reverse proxy writes to the boot client: resp, or 502 when the
\* hook returned an error.
Delivered ==
    IF fnRet.err
    THEN [NoResponse EXCEPT !.StatusCode = 502]
    ELSE fnRet.resp

RedirectInit ==
    /\ KubeIdle
    /\ allowList = <<>>
    /\ blockList = <<>>
    /\ PolicyIdle
    /\ ProxyIdle
    /\ CacheNew
    /\ fnCall \in [fn : {""},
                   arg : [Request : UpstreamRequests, resp : Responses("registry")]]
    /\ fnRet = [err |-> FALSE]

RedirectNext ==
    \/ ModifyResponse
    \/ \E response \in Responses("location") : Redirected(response)
    \/ RedirectFails

RedirectSpec == RedirectInit /\ [][RedirectNext]_vars

\* ------------------------------------------------------------------------
\* Properties of the blob response
\* ------------------------------------------------------------------------

\* The upstream blob response was a 307 that names a Location, and the hook
\* has gone past it.
RedirectFollowed ==
    /\ fnCall.fn \in {"redirect", "done"}
    /\ fnCall.arg.resp.StatusCode = 307
    /\ fnCall.arg.resp.Header["Location"] # <<>>

\* The hook returned without error after client.Do returned a response.
RedirectDelivered ==
    /\ fnCall.fn = "done"
    /\ ~fnRet.err
    /\ fnRet.gets # <<>>

\* C21: when the upstream blob response has status 307, the proxy issues
\* exactly one further GET, to the URL of the Location header and with the
\* headers of the upstream request; if the answer to it is itself a redirect,
\* no further GET is sent.
C21_SingleRedirectHop ==
    RedirectFollowed =>
        /\ Len(fnRet.gets) = 1
        /\ fnRet.gets[1].url = HeaderGet(fnCall.arg.resp.Header, "Location")
        /\ fnRet.gets[1].Header = fnCall.arg.Request.Header

\* C22: after a 307 has been followed, the delivered response has the status
\* code and the body of the redirected response, and no header of the
\* original 307 response is left in it unless the redirected response carries
\* that header with that value.
C22_RedirectReplaces ==
    RedirectDelivered =>
        /\ Delivered.StatusCode = fnRet.redirectResp.StatusCode
        /\ Delivered.Body = fnRet.redirectResp.Body
        /\ \A n \in HeaderNames :
               (/\ Delivered.Header[n] # <<>>
                /\ Delivered.Header[n] = fnCall.arg.resp.Header[n])
               => fnRet.redirectResp.Header[n] = Delivered.Header[n]

\* The response whose Content-Type the proxy looks at: the redirected one
\* when a redirect was followed, the registry's otherwise.
FinalUpstream ==
    IF fnRet.gets # <<>> THEN fnRet.redirectResp ELSE fnCall.arg.resp

\* C23: a delivered response whose final upstream Content-Type is the UKI
\* media type has Content-Type application/efi, and every other Content-Type
\* value is delivered as it came.
C23_UKIContentType ==
    (fnCall.fn = "done" /\ ~fnRet.err) =>
        LET ct == FinalUpstream.Header["Content-Type"]
        IN  /\ ct = <<MediaTypeUKI>>
                => Delivered.Header["Content-Type"] = <<"application/efi">>
            /\ (ct # <<>> /\ ct # <<MediaTypeUKI>>)
                => Delivered.Header["Content-Type"] = ct

C23_Witness ==
    /\ RedirectDelivered
    /\ fnRet.redirectResp.Header["Content-Type"] = <<MediaTypeUKI>>
    /\ fnCall.arg.resp.Header["Content-Type"] = <<"application/octet-stream">>
    /\ Delivered.Header["Content-Type"] = <<"application/efi">>

\* ------------------------------------------------------------------------
\* Registry auth detection on its own
\* ------------------------------------------------------------------------

\* One auth-param of a challenge: missing, name="value", or name="value
\* with the closing quote cut off.
AuthParam(name, value, form) ==
    CASE form = "absent" -> <<>>
      [] form = "quoted" -> <<name \o "=\"", value, "\"">>
      [] OTHER -> <<name \o "=\"", value>>

\* The two auth-params of a challenge in the order given, with a comma
\* between them when both are there.
AuthParams(first, second) ==
    IF first # <<>> /\ second # <<>> THEN first \o <<",">> \o second
    ELSE first \o second

\* WWW-Authenticate values: none, or a scheme followed by realm and service
\* in either order.
Challenges ==
    {<<>>}
    \cup {<<scheme>> \o AuthParams(AuthParam("realm", "https://auth/token", r),
                                    AuthParam("service", "svc", s)) :
             scheme \in {"Bearer ", "Basic ", "bearer ", "Negotiate "},
             r \in {"absent", "quoted"}, s \in {"absent", "quoted", "open"}}
    \cup {<<scheme>> \o AuthParams(AuthParam("service", "svc", s),
                                    AuthParam("realm", "https://auth/token", r)) :
             scheme \in {"Bearer ", "Basic ", "bearer ", "Negotiate "},
             s \in {"absent", "quoted"}, r \in {"absent", "quoted", "open"}}

\* What GET https://<domain>/v2/ may come back with, every challenge included.
ProbeOutcomes ==
    {[reachable |-> FALSE, StatusCode |-> 0, WWWAuthenticate |-> <<>>]}
    \cup [reachable : {TRUE}, StatusCode : {200, 401, 403, 500},
          WWWAuthenticate : Challenges]

\* One call detectRegistryAuth(registryDomain, repository) with the probe
\* answered by response.
Detect ==
    /\ fnCall.fn = ""
    /\ fnCall' = [fnCall EXCEPT !.fn = "detectRegistryAuth"]
    /\ fnRet' = detectRegistryAuth(fnCall.arg.registryDomain,
                                   fnCall.arg.repository, fnCall.arg.response)
    /\ UNCHANGED notFn

DetectInit ==
    /\ KubeIdle
    /\ allowList = <<>>
    /\ blockList = <<>>
    /\ PolicyIdle
    /\ ProxyIdle
    /\ CacheNew
    /\ fnCall \in [fn : {""},
                   arg : [registryDomain : ProxyDomains,
                          repository : Repositories,
                          response : ProbeOutcomes]]
    /\ fnRet = [err |-> FALSE]

DetectNext ==
    \/ Detect

DetectSpec == DetectInit /\ [][DetectNext]_vars

\* ------------------------------------------------------------------------
\* Properties of registry auth detection
\* ------------------------------------------------------------------------

\* The probe was answered with this status.
Answered(status) ==
    /\ fnCall.fn = "detectRegistryAuth"
    /\ fnCall.arg.response.reachable
    /\ fnCall.arg.response.StatusCode = status

\* The WWW-Authenticate header of the answer starts with scheme.
ChallengeOf(scheme) ==
    /\ fnCall.arg.response.WWWAuthenticate # <<>>
    /\ fnCall.arg.response.WWWAuthenticate[1] = scheme

\* The header is the scheme followed by exactly these auth-params.
ChallengeIs(scheme, params) ==
    fnCall.arg.response.WWWAuthenticate = <<scheme>> \o params

QuotedRealm == <<"realm=\"", "https://auth/token", "\"">>

QuotedService == <<"service=\"", "svc", "\"">>

PullScope == <<"repository:">> \o fnCall.arg.repository \o <<":pull">>

\* C24: the probe classifies the registry as none on 200, as bearer on 401
\* with a header starting with "Bearer " (the token URL being the
\* challenge's realm with its service and the pull scope as query), and as
\* basic on 401 with a header starting with "Basic " (with the challenge's
\* realm and no token URL); no other answer gives a RegistryInfo.
C24_AuthClassification ==
    fnCall.fn = "detectRegistryAuth" =>
        /\ Answered(200) =>
               /\ ~fnRet.err
               /\ fnRet.info = RegistryInfo(fnCall.arg.registryDomain,
                                            "AuthNone", <<>>, <<>>)
        /\ (Answered(401) /\ ChallengeOf("Bearer ")) =>
               /\ ~fnRet.err
               /\ fnRet.info.Domain = fnCall.arg.registryDomain
               /\ fnRet.info.AuthMethod = "AuthBearer"
               /\ fnRet.info.Realm = <<>>
               /\ (\/ ChallengeIs("Bearer ", QuotedRealm \o <<",">> \o QuotedService)
                   \/ ChallengeIs("Bearer ", QuotedService \o <<",">> \o QuotedRealm))
                  => fnRet.info.TokenURL =
                         <<"https://auth/token", "?service=", "svc", "&scope=">>
                         \o PullScope
               /\ ChallengeIs("Bearer ", QuotedRealm)
                  => fnRet.info.TokenURL =
                         <<"https://auth/token", "?scope=">> \o PullScope
        /\ (Answered(401) /\ ChallengeOf("Basic ")) =>
               /\ ~fnRet.err
               /\ fnRet.info.Domain = fnCall.arg.registryDomain
               /\ fnRet.info.AuthMethod = "AuthBasic"
               /\ fnRet.info.TokenURL = <<>>
               /\ (\/ ChallengeIs("Basic ", QuotedRealm)
                   \/ ChallengeIs("Basic ", QuotedRealm \o <<",">> \o QuotedService))
                  => fnRet.info.Realm = <<"https://auth/token">>
        /\ ~(\/ Answered(200)
             \/ Answered(401) /\ (ChallengeOf("Bearer ") \/ ChallengeOf("Basic ")))
           => fnRet.err /\ fnRet.info = NoInfo

C24_Witness ==
    /\ Answered(401)
    /\ ChallengeIs("Bearer ", QuotedService \o <<",">> \o QuotedRealm)
    /\ fnCall.arg.repository = <<"org/x">>
    /\ fnRet.info.AuthMethod = "AuthBearer"
    /\ fnRet.info.TokenURL = <<"https://auth/token", "?service=", "svc", "&scope=",
                               "repository:", "org/x", ":pull">>

\* C25: detection fails and gives no RegistryInfo when the probe answers
\* 401 without a header, with a scheme that is neither Bearer nor Basic, or
\* with a Bearer challenge that gives no token URL, and when it answers any
\* status other than 200 and 401.
C25_DetectionHardFailure ==
    (\/ /\ Answered(401)
        /\ \/ fnCall.arg.response.WWWAuthenticate = <<>>
           \/ ~ChallengeOf("Bearer ") /\ ~ChallengeOf("Basic ")
           \/ /\ ChallengeOf("Bearer ")
              /\ extractTokenURL(fnCall.arg.response.WWWAuthenticate,
                                 fnCall.arg.repository) = <<>>
     \/ /\ fnCall.fn = "detectRegistryAuth"
        /\ fnCall.arg.response.reachable
        /\ fnCall.arg.response.StatusCode \notin {200, 401})
    => fnRet.err /\ fnRet.info = NoInfo

\* ------------------------------------------------------------------------
\* Properties of the PXE index selection
\* ------------------------------------------------------------------------

\* getLayerDigestsFromNestedManifest was called on an index whose fetch
\* succeeded.
PXEOnIndex ==
    /\ fnCall.fn = "getLayerDigestsFromNestedManifest"
    /\ fnCall.arg.MediaType = "MediaTypeImageIndex"
    /\ fnCall.arg.read = fnCall.arg.Size

\* Entry i carries the legacy annotations of the target architecture.
LegacyMatch(i) ==
    /\ fnCall.arg.Manifests[i].cname # <<>>
    /\ fnCall.arg.Manifests[i].cname[1] = "metal_pxe"
    /\ fnCall.arg.Manifests[i].architecture = fnCall.arg.architecture

\* Entry i has a platform of the target architecture.
PlatformMatch(i) ==
    fnCall.arg.Manifests[i].Platform = fnCall.arg.architecture

\* The layers returned are those of entry i of the index.
SelectedEntry(i) ==
    /\ ~fnRet.err
    /\ fnRet.kernelDigest.manifest = EntryDigest(i)

\* C30: the legacy pass runs over the whole index first and the platform
\* pass only when it selects nothing; within a pass the first match in list
\* order wins; the selected entry matches the target architecture by one of
\* the two rules; when neither pass matches, resolution fails.
C30_TwoPassSelection ==
    PXEOnIndex =>
        LET entries == 1..Len(fnCall.arg.Manifests)
        IN  /\ \A i \in entries :
                   SelectedEntry(i) =>
                       \/ /\ LegacyMatch(i)
                          /\ \A j \in 1..(i - 1) : ~LegacyMatch(j)
                       \/ /\ \A j \in entries : ~LegacyMatch(j)
                          /\ PlatformMatch(i)
                          /\ \A j \in 1..(i - 1) : ~PlatformMatch(j)
            /\ ~fnRet.err => \E i \in entries : SelectedEntry(i)
            /\ (\A i \in entries : ~LegacyMatch(i) /\ ~PlatformMatch(i))
               => fnRet.err
            /\ ((\E i \in entries : LegacyMatch(i) \/ PlatformMatch(i))
                /\ fnCall.arg.nestedRead = fnCall.arg.nestedSize)
               => ~fnRet.err

C30_Witness ==
    /\ PXEOnIndex
    /\ Len(fnCall.arg.Manifests) = 2
    /\ PlatformMatch(1)
    /\ ~LegacyMatch(1)
    /\ LegacyMatch(2)
    /\ SelectedEntry(2)

\* ------------------------------------------------------------------------
\* ServerBootConfiguration PXE reconciler
\* ------------------------------------------------------------------------

\* Network interfaces of a Server and API calls that fail in one run.
MaxNics == 2

MaxApiFailures == 1

ConfigNames == {"c1", "c2"}

ServerNames == {"s1", "s0"}

SecretNames == {"ign", "c1-mutated", "c2-mutated"}

\* What a Get of a missing object finds.
NoObject == [exists |-> FALSE]

\* Server.Status.NetworkInterfaces: an interface has no address, the single
\* IP, or the list IPs.
NetworkInterfaces ==
    UNION {[1..n -> {[IP |-> "", IPs |-> <<>>],
                     [IP |-> "1.1.1.1", IPs |-> <<>>],
                     [IP |-> "", IPs |-> <<"2.2.2.2", "3.3.3.3">>]}] :
           n \in 0..MaxNics}

Servers ==
    [exists : {TRUE}, Name : {"s1"}, SystemUUID : {"u1"},
     NetworkInterfaces : NetworkInterfaces]

\* ServerBootConfiguration objects named n: those that map, with either
\* boot type and with or without ignition secret, and one each that is
\* being deleted, is of another boot type, names a missing Server or names
\* an image on a registry with a port.
ServerBootConfigurations(n) ==
    LET mapping == [exists : {TRUE}, Namespace : {"ns"}, Name : {n},
                    UID : {"uid-" \o n}, Deleting : {FALSE},
                    BootType : {"", "PXE"}, ServerRef : {"s1"},
                    Image : {<<"n", ":", "n">>},
                    IgnitionSecretRef : {"nil", "ign"}, State : {""}]
        base == CHOOSE config \in mapping :
                    config.BootType = "PXE" /\ config.IgnitionSecretRef = "ign"
    IN  mapping \cup {[base EXCEPT !.Deleting = TRUE],
                      [base EXCEPT !.BootType = "HTTP"],
                      [base EXCEPT !.ServerRef = "s0"],
                      [base EXCEPT !.Image = <<"n", ":", "n", "/", "n", ":", "n">>]}

\* Manifests the registry may hold under the image reference: one with the
\* three artifacts and one without the squashfs.
PXEImages ==
    {image \in ManifestImages :
        /\ image.read = image.Size
        /\ image.Layers \in {SubSeq(AllLayers, 1, 3), SubSeq(AllLayers, 1, 2)}}

\* A Secret: Data["ignition"] is missing (kind "nil"), is not an Ignition
\* config, or is one with its version and storage.files.
Secret(data, owners) ==
    [exists |-> TRUE, Namespace |-> "ns", ignition |-> data,
     OwnerReferences |-> owners]

NoIgnition == [kind |-> "nil", version |-> "", files |-> <<>>]

\* The owner reference SetControllerReference adds for config.
ControllerReference(config) ==
    [Kind |-> "ServerBootConfiguration", Name |-> config.Name,
     UID |-> config.UID, Controller |-> TRUE]

\* The addresses getSystemIPFromBootConfig takes from one interface, with
\* the list IPs never looked at.
NicIPsSingle(nic) ==
    IF nic.IP # "" THEN <<nic.IP>> ELSE <<>>

\* The addresses getSystemIPFromBootConfig takes from one interface: all of
\* IPs when there are any, else IP when it is set and not zero.
NicIPs(nic) ==
    IF Len(nic.IPs) > 0 THEN nic.IPs
    ELSE IF nic.IP # "" THEN <<nic.IP>>
    ELSE <<>>

RECURSIVE getSystemIPFromBootConfig(_)
\* getSystemIPFromBootConfig, over server.Status.NetworkInterfaces.
getSystemIPFromBootConfig(nics) ==
    IF nics = <<>> THEN <<>>
    ELSE NicIPs(Head(nics)) \o getSystemIPFromBootConfig(Tail(nics))

\* The URL of one layer: <IPXEServiceURL>/image?imageName=..&version=..
\* &layerDigest=..
LayerURL(details, digest) ==
    [imageName |-> details.imageName, version |-> details.version,
     layerDigest |-> digest]

\* getImageDetailsFromConfig as reconcile calls it: the split of
\* Spec.Image, then the resolution, then the three URLs.
imageURLsFromConfig(config) ==
    LET details == getImageDetailsFromConfig(config.Image)
        digests == getLayerDigestsFromNestedManifest(ociImage)
    IN IF details.err \/ digests.err
       THEN [err |-> TRUE]
       ELSE [err |-> FALSE,
             kernelURL |-> LayerURL(details, digests.kernelDigest),
             initrdURL |-> LayerURL(details, digests.initrdDigest),
             squashFSURL |-> LayerURL(details, digests.squashFSDigest)]

\* The IPXEBootConfig after the server-side apply of the object reconcile
\* builds: metadata, spec and the controller reference are the applied
\* ones, the status is the stored one.
AppliedIPXEBootConfig(config, urls, ignitionRefName, stored) ==
    [exists |-> TRUE, Namespace |-> config.Namespace, Name |-> config.Name,
     OwnerReferences |-> {ControllerReference(config)},
     SystemUUID |-> servers[config.ServerRef].SystemUUID,
     SystemIPs |-> getSystemIPFromBootConfig(
                       servers[config.ServerRef].NetworkInterfaces),
     KernelURL |-> urls.kernelURL, InitrdURL |-> urls.initrdURL,
     SquashfsURL |-> urls.squashFSURL,
     IgnitionSecretRef |-> ignitionRefName,
     State |-> IF stored.exists THEN stored.State ELSE ""]

\* patchConfigStateFromIPXEState: Ready and Error are copied.
patchConfigStateFromIPXEState(ipxeState, state) ==
    IF ipxeState \in {"Ready", "Error"} THEN ipxeState ELSE state

\* The API call named fail, if any, fails in this run.
ApiCall(fail, reached) ==
    /\ fail \in reached \cup {"none"}
    /\ fail # "none" => apiFailures < MaxApiFailures
    /\ apiFailures' = IF fail = "none" THEN apiFailures ELSE apiFailures + 1

\* Reconcile of the ServerBootConfiguration named n.  A configuration that
\* is being deleted or is not of boot type PXE is left alone; a missing
\* Server ends the run; an image that cannot be resolved sets the state
\* Error; otherwise the IPXEBootConfig is applied, read back and its state
\* copied.  Each API call on the way may fail and end the run.
Reconcile(n, fail) ==
    /\ bootConfigs[n].exists
    /\ \E config \in {bootConfigs[n]} : \E urls \in {imageURLsFromConfig(config)} :
       LET applied == AppliedIPXEBootConfig(config, urls, config.IgnitionSecretRef,
                                            ipxeBootConfigs[n])
       IN  IF config.Deleting \/ config.BootType \notin {"", "PXE"}
           THEN /\ ApiCall(fail, {})
                /\ UNCHANGED <<bootConfigs, ipxeBootConfigs>>
           ELSE IF ~servers[config.ServerRef].exists
           THEN /\ ApiCall(fail, {})
                /\ UNCHANGED <<bootConfigs, ipxeBootConfigs>>
           ELSE IF urls.err
           THEN /\ ApiCall(fail, {"getServer", "patchState"})
                /\ bootConfigs' =
                       IF fail = "none"
                       THEN [bootConfigs EXCEPT ![n].State = "Error"]
                       ELSE bootConfigs
                /\ UNCHANGED ipxeBootConfigs
           ELSE /\ ApiCall(fail, {"getServer", "apply", "get", "status"})
                /\ ipxeBootConfigs' =
                       IF fail \in {"getServer", "apply"}
                       THEN ipxeBootConfigs
                       ELSE [ipxeBootConfigs EXCEPT ![n] = applied]
                /\ bootConfigs' =
                       IF fail = "none"
                       THEN [bootConfigs EXCEPT ![n].State =
                                patchConfigStateFromIPXEState(applied.State, @)]
                       ELSE bootConfigs
    /\ UNCHANGED <<servers, secrets, ociImage>>
    /\ UNCHANGED <<envVars, policyVars, proxyVars, cacheVars, fnVars>>

\* ensureIgnition of the IPXEBootConfig reconciler.
ensureIgnition(ipxeBootConfig) ==
    IF ipxeBootConfig.IgnitionSecretRef = "nil" THEN "Ready"
    ELSE IF ~secrets[ipxeBootConfig.IgnitionSecretRef].exists THEN "Error"
    ELSE IF secrets[ipxeBootConfig.IgnitionSecretRef].ignition.kind = "nil"
    THEN "Error"
    ELSE "Ready"

\* Reconcile of the IPXEBootConfig named n: its status is patched to what
\* ensureIgnition finds.
ReconcileIPXE(n) ==
    /\ ipxeBootConfigs[n].exists
    /\ ipxeBootConfigs' =
           [ipxeBootConfigs EXCEPT ![n].State = ensureIgnition(ipxeBootConfigs[n])]
    /\ UNCHANGED <<servers, bootConfigs, secrets, ociImage, apiFailures>>
    /\ UNCHANGED <<envVars, policyVars, proxyVars, cacheVars, fnVars>>

\* A cluster with one Server or none, one ServerBootConfiguration and the
\* ignition secret or none; nothing has been reconciled.
PxeInit ==
    /\ ociImage \in PXEImages
    /\ allowList = <<>>
    /\ blockList = <<>>
    /\ PolicyIdle
    /\ ProxyIdle
    /\ CacheNew
    /\ FnIdle
    /\ \E server \in Servers \cup {NoObject} :
           servers = [s \in ServerNames |-> IF s = "s1" THEN server ELSE NoObject]
    /\ \E n \in ConfigNames : \E config \in ServerBootConfigurations(n) :
           bootConfigs = [m \in ConfigNames |-> IF m = n THEN config ELSE NoObject]
    /\ \E secret \in {NoObject, Secret(NoIgnition, {}),
                      Secret([kind |-> "ignition", version |-> "3.4.0",
                              files |-> <<>>], {})} :
           secrets = [s \in SecretNames |-> IF s = "ign" THEN secret ELSE NoObject]
    /\ ipxeBootConfigs = [n \in ConfigNames |-> NoObject]
    /\ apiFailures = 0

PxeNext ==
    \/ \E n \in ConfigNames :
           \E fail \in {"none", "getServer", "patchState", "apply", "get", "status"} :
               Reconcile(n, fail)
    \/ \E n \in ConfigNames : ReconcileIPXE(n)

PxeSpec == PxeInit /\ [][PxeNext]_vars

\* The controller requeues a failed request, so a run in which no API call
\* fails is eventually made.
PxeFairSpec ==
    PxeSpec /\ \A n \in ConfigNames : WF_vars(Reconcile(n, "none"))

\* ------------------------------------------------------------------------
\* Properties of the PXE reconciler
\* ------------------------------------------------------------------------

\* The ServerBootConfiguration named n is one the PXE reconciler handles,
\* its Server exists and its image resolves.
Mappable(n) ==
    /\ bootConfigs[n].exists
    /\ ~bootConfigs[n].Deleting
    /\ bootConfigs[n].BootType \in {"", "PXE"}
    /\ servers[bootConfigs[n].ServerRef].exists
    /\ ~imageURLsFromConfig(bootConfigs[n]).err

\* Every address of every interface of the Server is in ips.
HasEveryIP(server, ips) ==
    \A i \in 1..Len(server.NetworkInterfaces) :
        LET nic == server.NetworkInterfaces[i]
        IN  /\ nic.IP # "" => \E k \in 1..Len(ips) : ips[k] = nic.IP
            /\ \A j \in 1..Len(nic.IPs) : \E k \in 1..Len(ips) : ips[k] = nic.IPs[j]

\* The IPXEBootConfig of the same name and namespace is the mapping of the
\* ServerBootConfiguration named n.
Mapped(n) ==
    /\ ipxeBootConfigs[n].exists
    /\ ipxeBootConfigs[n].Name = bootConfigs[n].Name
    /\ ipxeBootConfigs[n].Namespace = bootConfigs[n].Namespace
    /\ [Kind |-> "ServerBootConfiguration", Name |-> n,
        UID |-> bootConfigs[n].UID, Controller |-> TRUE]
           \in ipxeBootConfigs[n].OwnerReferences
    /\ ipxeBootConfigs[n].SystemUUID = servers[bootConfigs[n].ServerRef].SystemUUID
    /\ HasEveryIP(servers[bootConfigs[n].ServerRef], ipxeBootConfigs[n].SystemIPs)
    /\ ipxeBootConfigs[n].IgnitionSecretRef = bootConfigs[n].IgnitionSecretRef

MaxFiles == 2

\* storage.files entries of the ignition secret; paths are distinct, as the
\* parser reports duplicates.
IgnitionFiles ==
    {[Path |-> "/etc/hostname", Source |-> "data:,old", Overwrite |-> "", Mode |-> ""],
     [Path |-> "/etc/motd", Source |-> "data:,hi", Overwrite |-> "", Mode |-> ""]}

FileLists ==
    {files \in UNION {[1..k -> IgnitionFiles] : k \in 0..MaxFiles} :
        \A i, j \in 1..Len(files) : i # j => files[i].Path # files[j].Path}

\* Data["ignition"] of the ignition secret.
IgnitionData ==
    {NoIgnition, [kind |-> "garbage", version |-> "", files |-> <<>>]}
    \cup [kind : {"ignition"}, version : {"3.0.0", "3.4.0"}, files : FileLists]

\* The hostname file modifyIgnitionConfig appends.
HostnameFile(effectiveHostname) ==
    [Path |-> "/etc/hostname",
     Source |-> "data:," \o effectiveHostname \o "%0A",
     Overwrite |-> "true", Mode |-> "0644"]

\* modifyIgnitionConfig writing the hostname file at the end in every case.
modifyIgnitionConfigAppendOnly(ignitionData, effectiveHostname) ==
    IF ignitionData.kind # "ignition"
    THEN [err |-> TRUE, data |-> NoIgnition]
    ELSE [err |-> FALSE,
          data |-> [kind |-> "ignition", version |-> "3.4.0",
                    files |-> Append(ignitionData.files,
                                     HostnameFile(effectiveHostname))]]

\* modifyIgnitionConfig: the config is parsed into the 3.4 types, the source
\* of the first file with path /etc/hostname is replaced, or the hostname
\* file is appended when there is none, and the config is serialized.
modifyIgnitionConfig(ignitionData, effectiveHostname) ==
    IF ignitionData.kind # "ignition"
    THEN [err |-> TRUE, data |-> NoIgnition]
    ELSE LET files == ignitionData.files
             found == {i \in 1..Len(files) : files[i].Path = "/etc/hostname"}
             source == "data:," \o effectiveHostname \o "%0A"
         IN [err |-> FALSE,
             data |-> [kind |-> "ignition", version |-> "3.4.0",
                       files |-> IF found # {}
                                 THEN [files EXCEPT ![Min(found)].Source = source]
                                 ELSE Append(files, HostnameFile(effectiveHostname))]]

\* mutateAndApplyServerNameInIgnition up to the apply: the name and the
\* content of the secret it is about to apply.
mutateAndApplyServerNameInIgnition(config) ==
    LET ignitionSecret == secrets[config.IgnitionSecretRef]
        modified == modifyIgnitionConfig(ignitionSecret.ignition, config.ServerRef)
    IN IF ~ignitionSecret.exists THEN [err |-> TRUE]
       ELSE IF ignitionSecret.ignition.kind = "nil" THEN [err |-> TRUE]
       ELSE IF modified.err THEN [err |-> TRUE]
       ELSE [err |-> FALSE, name |-> config.Name \o "-mutated",
             secret |-> Secret(modified.data, {ControllerReference(config)})]

\* Reconcile of the ServerBootConfiguration named n by the reconciler that
\* has EnforceServerNameasHostname set.  The ignition secret reference is
\* read before it is tested for nil, so a configuration without one ends
\* the run there.
ReconcileEnforced(n, fail) ==
    /\ bootConfigs[n].exists
    /\ \E config \in {bootConfigs[n]} : \E urls \in {imageURLsFromConfig(config)} :
       IF config.Deleting \/ ~servers[config.ServerRef].exists
       THEN /\ ApiCall(fail, {})
            /\ UNCHANGED <<bootConfigs, ipxeBootConfigs, secrets>>
       ELSE IF urls.err
       THEN /\ ApiCall(fail, {"getServer", "patchState"})
            /\ bootConfigs' =
                   IF fail = "none"
                   THEN [bootConfigs EXCEPT ![n].State = "Error"]
                   ELSE bootConfigs
            /\ UNCHANGED <<ipxeBootConfigs, secrets>>
       ELSE IF config.IgnitionSecretRef = "nil"
       THEN /\ ApiCall(fail, {"getServer"})
            /\ UNCHANGED <<bootConfigs, ipxeBootConfigs, secrets>>
       ELSE \E mutated \in {mutateAndApplyServerNameInIgnition(config)} :
            IF mutated.err
            THEN /\ ApiCall(fail, {"getServer"})
                 /\ UNCHANGED <<bootConfigs, ipxeBootConfigs, secrets>>
            ELSE LET applied == AppliedIPXEBootConfig(config, urls, mutated.name,
                                                      ipxeBootConfigs[n])
                 IN /\ ApiCall(fail, {"getServer", "getSecret", "applySecret",
                                      "apply", "get", "status"})
                    /\ secrets' =
                           IF fail \in {"getServer", "getSecret", "applySecret"}
                           THEN secrets
                           ELSE [secrets EXCEPT ![mutated.name] = mutated.secret]
                    /\ ipxeBootConfigs' =
                           IF fail \in {"getServer", "getSecret", "applySecret", "apply"}
                           THEN ipxeBootConfigs
                           ELSE [ipxeBootConfigs EXCEPT ![n] = applied]
                    /\ bootConfigs' =
                           IF fail = "none"
                           THEN [bootConfigs EXCEPT ![n].State =
                                    patchConfigStateFromIPXEState(applied.State, @)]
                           ELSE bootConfigs
    /\ UNCHANGED <<servers, ociImage>>
    /\ UNCHANGED <<envVars, policyVars, proxyVars, cacheVars, fnVars>>

\* A cluster with one Server or none, whose interfaces each have an IP, one
\* ServerBootConfiguration and the ignition secret or none.
HostnameInit ==
    /\ ociImage \in PXEImages
    /\ allowList = <<>>
    /\ blockList = <<>>
    /\ PolicyIdle
    /\ ProxyIdle
    /\ CacheNew
    /\ FnIdle
    /\ \E server \in {NoObject} \cup
                     {s \in Servers : \A i \in 1..Len(s.NetworkInterfaces) :
                                          s.NetworkInterfaces[i].IP # ""} :
           servers = [s \in ServerNames |-> IF s = "s1" THEN server ELSE NoObject]
    /\ \E n \in ConfigNames : \E config \in ServerBootConfigurations(n) :
           bootConfigs = [m \in ConfigNames |-> IF m = n THEN config ELSE NoObject]
    /\ \E data \in IgnitionData : \E secret \in {NoObject, Secret(data, {})} :
           secrets = [s \in SecretNames |-> IF s = "ign" THEN secret ELSE NoObject]
    /\ ipxeBootConfigs = [n \in ConfigNames |-> NoObject]
    /\ apiFailures = 0

HostnameNext ==
    \/ \E n \in ConfigNames :
           \E fail \in {"none", "getServer", "patchState", "getSecret", "applySecret",
                        "apply", "get", "status"} :
               ReconcileEnforced(n, fail)
    \/ \E n \in ConfigNames : ReconcileIPXE(n)

HostnameSpec == HostnameInit /\ [][HostnameNext]_vars

\* The controller requeues a failed request, so a run in which no API call
\* fails is eventually made.
HostnameFairSpec ==
    HostnameSpec /\ \A n \in ConfigNames : WF_vars(ReconcileEnforced(n, "none"))

\* ------------------------------------------------------------------------
\* Properties of the hostname enforcement
\* ------------------------------------------------------------------------

\* The ServerBootConfiguration named n can be mapped and its ignition
\* secret holds an Ignition config.
Mutable(n) ==
    /\ bootConfigs[n].exists
    /\ ~bootConfigs[n].Deleting
    /\ servers[bootConfigs[n].ServerRef].exists
    /\ ~imageURLsFromConfig(bootConfigs[n]).err
    /\ bootConfigs[n].IgnitionSecretRef # "nil"
    /\ secrets[bootConfigs[n].IgnitionSecretRef].exists
    /\ secrets[bootConfigs[n].IgnitionSecretRef].ignition.kind = "ignition"

\* files is original with the content of its /etc/hostname entry replaced
\* by the name, or with such an entry added at the end when it has none.
HostnameSet(original, files, name) ==
    LET content == "data:," \o name \o "%0A"
        had == \E i \in 1..Len(original) : original[i].Path = "/etc/hostname"
    IN  /\ \E i \in 1..Len(files) :
               files[i].Path = "/etc/hostname" /\ files[i].Source = content
        /\ had => /\ Len(files) = Len(original)
                  /\ \A i \in 1..Len(files) :
                         /\ files[i].Path = original[i].Path
                         /\ files[i].Path # "/etc/hostname" => files[i] = original[i]
        /\ ~had => /\ Len(files) = Len(original) + 1
                   /\ SubSeq(files, 1, Len(original)) = original
                   /\ files[Len(files)].Path = "/etc/hostname"

\* The secret <n>-mutated exists, is owned by the configuration and holds
\* the hostname, and the IPXEBootConfig names it.
Mutated(n) ==
    LET name == n \o "-mutated" IN
    /\ secrets[name].exists
    /\ [Kind |-> "ServerBootConfiguration", Name |-> n,
        UID |-> bootConfigs[n].UID, Controller |-> TRUE]
           \in secrets[name].OwnerReferences
    /\ secrets[name].ignition.kind = "ignition"
    /\ HostnameSet(secrets[bootConfigs[n].IgnitionSecretRef].ignition.files,
                   secrets[name].ignition.files,
                   servers[bootConfigs[n].ServerRef].Name)
    /\ ipxeBootConfigs[n].exists
    /\ ipxeBootConfigs[n].IgnitionSecretRef = name

MaxForwarded == 3

ClientAddrs == {<<"10.0.0.1">>, <<"10.0.0.2">>, <<"10.0.0.3">>}

\* Values of one X-Forwarded-For header line.
ForwardedValues ==
    UNION {[1..n -> {"10.0.0.1", "10.0.0.2", ",", " "}] : n \in 0..MaxForwarded}

\* Requests to /httpboot: RemoteAddr as the HTTP server sets it, and the
\* X-Forwarded-For lines of the header, of which a proxy may have added a
\* second one.
HTTPBootRequests ==
    [RemoteAddr : {ip \o <<":", "4711">> : ip \in ClientAddrs},
     XForwardedFor : {<<>>} \cup {<<v>> : v \in ForwardedValues}
                     \cup {<<v, <<"10.0.0.1">>>> : v \in ForwardedValues}]

\* The HTTPBootConfigs of the cluster: two of them carry the same system IP
\* and one has neither UKI URL nor system UUID.
HTTPBootConfigs ==
    SUBSET {[SystemIPs |-> {<<"10.0.0.1">>}, UKIURL |-> "https://uki/a", SystemUUID |-> "u1"],
            [SystemIPs |-> {<<"10.0.0.1">>, <<"10.0.0.2">>}, UKIURL |-> "", SystemUUID |-> ""],
            [SystemIPs |-> {<<"10.0.0.2">>}, UKIURL |-> "https://uki/b", SystemUUID |-> "u2"]}

\* net.SplitHostPort for an IPv4 host: the part before the last colon.
SplitHostPort(hostport) ==
    LET i == LastIndex(hostport, ":")
    IN IF i = 0 THEN [err |-> TRUE, host |-> <<>>]
       ELSE [err |-> FALSE, host |-> SubSeq(hostport, 1, i - 1)]

\* The client IPs with the forwarded entries before the remote address.
httpBootClientIPsForwardedFirst(clientIP, r) ==
    LET xff == IF r.XForwardedFor = <<>> THEN <<>> ELSE Head(r.XForwardedFor)
        trimmed == [i \in 1..Len(Split(xff, ",")) |-> TrimSpace(Split(xff, ",")[i])]
        NonEmpty(ip) == ip # <<>>
    IN SelectSeq(trimmed, NonEmpty) \o <<clientIP>>

\* clientIPs of handleHTTPBoot: the remote address, then the entries of
\* r.Header.Get("X-Forwarded-For") that are not empty once trimmed.
httpBootClientIPs(clientIP, r) ==
    LET xff == IF r.XForwardedFor = <<>> THEN <<>> ELSE Head(r.XForwardedFor)
        trimmed == [i \in 1..Len(Split(xff, ",")) |-> TrimSpace(Split(xff, ",")[i])]
        NonEmpty(ip) == ip # <<>>
    IN IF xff # <<>> THEN <<clientIP>> \o SelectSeq(trimmed, NonEmpty)
       ELSE <<clientIP>>

RECURSIVE listHTTPBootConfigs(_, _, _)
\* The lookup loop of handleHTTPBoot: the result of the first List by
\* system IP that succeeds with at least one item; a failed List is skipped.
listHTTPBootConfigs(clientIPs, configs, failing) ==
    IF clientIPs = <<>> THEN {}
    ELSE LET Items == {c \in configs : Head(clientIPs) \in c.SystemIPs}
         IN IF Head(clientIPs) \notin failing /\ Items # {} THEN Items
            ELSE listHTTPBootConfigs(Tail(clientIPs), configs, failing)

\* httpBootResponseData of handleHTTPBoot for the matching config, or for
\* no match.
httpBootResponseData(clientIPs, matched, httpBootConfig, defaultUKIURL) ==
    IF ~matched
    THEN [ClientIPs |-> Join(clientIPs, ","), UKIURL |-> defaultUKIURL]
    ELSE [ClientIPs |-> Join(clientIPs, ","),
          UKIURL |-> httpBootConfig.UKIURL,
          SystemUUID |-> httpBootConfig.SystemUUID]

\* handleHTTPBoot.  The order of the items of a List is not specified, so
\* the first item is any of them.
handleHTTPBoot ==
    /\ fnCall.fn = ""
    /\ fnCall' = [fnCall EXCEPT !.fn = "handleHTTPBoot"]
    /\ LET r == fnCall.arg.r
           split == SplitHostPort(r.RemoteAddr)
           clientIPs == httpBootClientIPs(split.host, r)
           Items == listHTTPBootConfigs(clientIPs, fnCall.arg.configs,
                                        fnCall.arg.failing)
       IN IF split.err
          THEN fnRet' = [err |-> TRUE, status |-> 500]
          ELSE IF Items = {}
          THEN fnRet' = [err |-> FALSE, status |-> 200,
                         ContentType |-> "application/json",
                         body |-> httpBootResponseData(clientIPs, FALSE, <<>>,
                                                       fnCall.arg.defaultUKIURL)]
          ELSE \E httpBootConfig \in Items :
                   fnRet' = [err |-> FALSE, status |-> 200,
                             ContentType |-> "application/json",
                             body |-> httpBootResponseData(clientIPs, TRUE,
                                          httpBootConfig, fnCall.arg.defaultUKIURL)]
    /\ UNCHANGED notFn

HTTPBootInit ==
    /\ KubeIdle
    /\ allowList = <<>>
    /\ blockList = <<>>
    /\ PolicyIdle
    /\ ProxyIdle
    /\ CacheNew
    /\ fnCall \in [fn : {""},
                   arg : [r : HTTPBootRequests,
                          configs : HTTPBootConfigs,
                          failing : SUBSET {<<"10.0.0.1">>},
                          defaultUKIURL : {"https://uki/default"}]]
    /\ fnRet = [err |-> FALSE]

HTTPBootNext == handleHTTPBoot

HTTPBootSpec == HTTPBootInit /\ [][HTTPBootNext]_vars

\* ------------------------------------------------------------------------
\* Properties of the /httpboot handler
\* ------------------------------------------------------------------------

\* The IPs the claim has the server try: the remote address, then the
\* entries of the X-Forwarded-For value the handler reads, in order.
TriedIPs ==
    LET r == fnCall.arg.r
        remote == SubSeq(r.RemoteAddr, 1, Len(r.RemoteAddr) - 2)
        value == IF r.XForwardedFor = <<>> THEN <<>> ELSE r.XForwardedFor[1]
        entries == Split(value, ",")
        kept == {i \in 1..Len(entries) : TrimSpace(entries[i]) # <<>>}
        Nth(k) == CHOOSE i \in kept : Cardinality({j \in kept : j <= i}) = k
    IN <<remote>> \o [k \in 1..Cardinality(kept) |-> TrimSpace(entries[Nth(k)])]

HasConfig(ip) == \E c \in fnCall.arg.configs : ip \in c.SystemIPs

MaxConditions == 2

\* predefinedConditions
predefinedConditions ==
    [IgnitionDataFetched |-> [Type |-> "IgnitionDataFetched", Status |-> "True",
                              Reason |-> "IgnitionDataDelivered"],
     IPXEScriptFetched |-> [Type |-> "IPXEScriptFetched", Status |-> "True",
                            Reason |-> "IPXEScriptDelivered"]]

\* A condition as it is stored, with its transition time.
Condition(type, status, reason, time) ==
    [Type |-> type, Status |-> status, Reason |-> reason, LastTransitionTime |-> time]

\* Condition lists of a stored status: every type at most once, set at time 0.
ConditionLists ==
    {conditions \in
         UNION {[1..k -> {Condition(type, "False", "Earlier", 0) :
                              type \in {"IgnitionDataFetched", "IPXEScriptFetched", "Ready"}}]
                : k \in 0..MaxConditions} :
        \A i, j \in 1..Len(conditions) :
            i # j => conditions[i].Type # conditions[j].Type}

\* The objects SetStatusCondition is called with.
StatusObjects ==
    [Kind : {"IPXEBootConfig", "HTTPBootConfig", "Secret"}, Conditions : ConditionLists]

\* updateCondition adding the condition at the end in every case.
updateConditionAppend(conditions, newCondition, time) ==
    Append(conditions, Condition(newCondition.Type, newCondition.Status,
                                 newCondition.Reason, time))

\* updateCondition: the condition replaces the first one of its type, or is
\* appended when there is none; its transition time is the current time.
updateCondition(conditions, newCondition, time) ==
    LET stamped == Condition(newCondition.Type, newCondition.Status,
                             newCondition.Reason, time)
        same == {i \in 1..Len(conditions) : conditions[i].Type = newCondition.Type}
    IN IF same # {} THEN [conditions EXCEPT ![Min(same)] = stamped]
       ELSE Append(conditions, stamped)

\* SetStatusCondition: the error, the object as the caller holds it
\* afterwards, the number of status patches issued and the stored status.
SetStatusCondition(obj, conditionType, time, patchFails) ==
    IF conditionType \notin DOMAIN predefinedConditions
    THEN [err |-> TRUE, obj |-> obj, patches |-> 0, stored |-> obj.Conditions]
    ELSE IF obj.Kind \in {"IPXEBootConfig", "HTTPBootConfig"}
    THEN LET resource ==
                 [obj EXCEPT !.Conditions =
                      updateCondition(@, predefinedConditions[conditionType], time)]
         IN [err |-> patchFails, obj |-> resource, patches |-> 1,
             stored |-> IF patchFails THEN obj.Conditions ELSE resource.Conditions]
    ELSE [err |-> TRUE, obj |-> obj, patches |-> 0, stored |-> obj.Conditions]

SetCondition ==
    /\ fnCall.fn = ""
    /\ fnCall' = [fnCall EXCEPT !.fn = "SetStatusCondition"]
    /\ fnRet' = SetStatusCondition(fnCall.arg.obj, fnCall.arg.conditionType,
                                   fnCall.arg.now, fnCall.arg.patchFails)
    /\ UNCHANGED notFn

ConditionInit ==
    /\ KubeIdle
    /\ allowList = <<>>
    /\ blockList = <<>>
    /\ PolicyIdle
    /\ ProxyIdle
    /\ CacheNew
    /\ fnCall \in [fn : {""},
                   arg : [obj : StatusObjects,
                          conditionType : {"IgnitionDataFetched", "IPXEScriptFetched",
                                           "DoesNotExist"},
                          now : {1},
                          patchFails : BOOLEAN]]
    /\ fnRet = [err |-> FALSE]

ConditionNext == SetCondition

ConditionSpec == ConditionInit /\ [][ConditionNext]_vars

\* ------------------------------------------------------------------------
\* Properties of the status conditions
\* ------------------------------------------------------------------------

\* Number of conditions of the type in a list.
OfType(conditions, type) ==
    Cardinality({i \in 1..Len(conditions) : conditions[i].Type = type})

\* C29: SetStatusCondition returns an error and issues no status patch when
\* the condition type is not IgnitionDataFetched or IPXEScriptFetched, or
\* when the object is neither an IPXEBootConfig nor an HTTPBootConfig; when
\* it returns no error, the status of the object holds exactly one condition
\* of the given type, whether one was there before or not.
C29_SetStatusCondition ==
    fnCall.fn = "SetStatusCondition" =>
        LET obj == fnCall.arg.obj
            type == fnCall.arg.conditionType
        IN  /\ (type \notin {"IgnitionDataFetched", "IPXEScriptFetched"}
                \/ obj.Kind \notin {"IPXEBootConfig", "HTTPBootConfig"})
               => /\ fnRet.err
                  /\ fnRet.patches = 0
                  /\ fnRet.stored = obj.Conditions
            /\ ~fnRet.err
               => /\ OfType(fnRet.obj.Conditions, type) = 1
                  /\ OfType(fnRet.stored, type) = 1

C29_Witness ==
    /\ fnCall.fn = "SetStatusCondition"
    /\ fnCall.arg.obj.Kind = "HTTPBootConfig"
    /\ fnCall.arg.conditionType = "IgnitionDataFetched"
    /\ Len(fnCall.arg.obj.Conditions) = 2
    /\ fnCall.arg.obj.Conditions[1].Type = "IgnitionDataFetched"
    /\ ~fnRet.err
    /\ fnRet.stored = <<Condition("IgnitionDataFetched", "True", "IgnitionDataDelivered", 1),
                        Condition("Ready", "False", "Earlier", 0)>>

\* ------------------------------------------------------------------------
\* PXE reconciler over manifests with any layers
\* ------------------------------------------------------------------------

\* The images the PXE reconciler may find under the reference, all served
\* whole: manifests with any list of layers that has no ISO or UKI layer,
\* and indexes whose manifests have every artifact.
ArtifactImages ==
    {image \in ManifestImages :
        /\ image.read = image.Size
        /\ \A i \in 1..Len(image.Layers) :
               /\ image.Layers[i].MediaType \notin {"MediaTypeISO", "MediaTypeUKI"}
               /\ image.Layers[i].title = <<>>}
    \cup {image \in IndexImages :
             /\ image.read = MaxBlob /\ image.Size = MaxBlob
             /\ image.nestedRead = MaxBlob /\ image.nestedSize = MaxBlob
             /\ Len(image.Manifests) = 1}

\* A cluster with the Server, one ServerBootConfiguration and no ignition
\* secret, over the images of ArtifactImages.
ArtifactInit ==
    /\ ociImage \in ArtifactImages
    /\ allowList = <<>>
    /\ blockList = <<>>
    /\ PolicyIdle
    /\ ProxyIdle
    /\ CacheNew
    /\ FnIdle
    /\ servers = [s \in ServerNames |->
                     IF s = "s1"
                     THEN [exists |-> TRUE, Name |-> "s1", SystemUUID |-> "u1",
                           NetworkInterfaces |-> <<[IP |-> "1.1.1.1", IPs |-> <<>>]>>]
                     ELSE NoObject]
    /\ \E config \in ServerBootConfigurations("c1") :
           bootConfigs = [m \in ConfigNames |-> IF m = "c1" THEN config ELSE NoObject]
    /\ secrets = [s \in SecretNames |-> NoObject]
    /\ ipxeBootConfigs = [n \in ConfigNames |-> NoObject]
    /\ apiFailures = 0

ArtifactSpec == ArtifactInit /\ [][PxeNext]_vars

\* ------------------------------------------------------------------------
\* Properties of the PXE artifacts
\* ------------------------------------------------------------------------

KernelTypes == {"MediaTypeKernel", "MediaTypeKernelOld"}

InitrdTypes == {"MediaTypeInitrd", "MediaTypeInitrdOld"}

SquashFSTypes == {"MediaTypeSquashFS", "MediaTypeSquashFSOld"}

\* The manifests of the image: the resolved one or an entry of the index.
ManifestDigests ==
    IF ociImage.MediaType = "MediaTypeImageIndex"
    THEN {EntryDigest(i) : i \in 1..Len(ociImage.Manifests)}
    ELSE {TopDigest}

\* digest is the digest of a layer of manifest m with a media type of types.
IsLayerOf(digest, m, types) ==
    \E i \in 1..Len(ociImage.Layers) :
        /\ digest = LayerDigest(m, i)
        /\ ociImage.Layers[i].MediaType \in types

\* Some kind of artifact has no layer in the manifest.
MissingKind ==
    \E types \in {KernelTypes, InitrdTypes, SquashFSTypes} :
        \A i \in 1..Len(ociImage.Layers) : ociImage.Layers[i].MediaType \notin types

\* The reconciler handles the configuration named n and reaches the
\* resolution of its image.
Resolving(n) ==
    /\ bootConfigs[n].exists
    /\ ~bootConfigs[n].Deleting
    /\ bootConfigs[n].BootType \in {"", "PXE"}
    /\ servers[bootConfigs[n].ServerRef].exists

\* An IPXEBootConfig carries three non-empty digests, each of a layer of the
\* kind in one manifest of the image, and there is none when a kind is missing.
ArtifactsResolved ==
    \A n \in ConfigNames :
        ipxeBootConfigs[n].exists =>
            /\ ~MissingKind
            /\ ipxeBootConfigs[n].KernelURL.layerDigest # NoLayerDigest
            /\ ipxeBootConfigs[n].InitrdURL.layerDigest # NoLayerDigest
            /\ ipxeBootConfigs[n].SquashfsURL.layerDigest # NoLayerDigest
            /\ \E m \in ManifestDigests :
                   /\ IsLayerOf(ipxeBootConfigs[n].KernelURL.layerDigest, m, KernelTypes)
                   /\ IsLayerOf(ipxeBootConfigs[n].InitrdURL.layerDigest, m, InitrdTypes)
                   /\ IsLayerOf(ipxeBootConfigs[n].SquashfsURL.layerDigest, m,
                                SquashFSTypes)

\* A reconcile without API failure of a configuration whose image lacks a
\* kind leaves its state at Error.
MissingKindIsError ==
    \A n \in ConfigNames :
        Resolving(n) /\ MissingKind /\ apiFailures' = apiFailures
        => bootConfigs'[n].State = "Error"

\* C31: PXE resolution succeeds only with a kernel, an initrd and a squashfs
\* digest that are non-empty and each the digest of a layer of the final
\* manifest with the current or legacy media type of its kind; when a kind
\* has no layer, no IPXEBootConfig is applied and the ServerBootConfiguration
\* state is patched to Error.
C31_AllArtifactsOrFailure ==
    /\ []ArtifactsResolved
    /\ [][MissingKindIsError]_vars

C31_Witness ==
    /\ Resolving("c1")
    /\ MissingKind
    /\ Len(ociImage.Layers) = 3
    /\ ociImage.Layers[1].MediaType = "MediaTypeKernel"
    /\ ociImage.Layers[2].MediaType = "MediaTypeInitrdOld"
    /\ bootConfigs["c1"].State = "Error"
    /\ ~ipxeBootConfigs["c1"].exists
    /\ apiFailures = MaxApiFailures

\* ------------------------------------------------------------------------
\* Properties of the proxy's failure paths
\* ------------------------------------------------------------------------

\* Handler h has sent a call of the kind.
Sent(h, kind) == \E i \in 1..Len(calls[h]) : calls[h][i].kind = kind

\* The token exchange of handler h gave no token: the endpoint failed, its
\* body could not be read or decoded, or it had no token in it.
NoTokenObtained(h) ==
    /\ regInfo[h].AuthMethod = "AuthBearer"
    /\ \E i \in 1..Len(calls[h]) : calls[h][i].kind = "token" /\ calls[h][i].got = ""

\* C32: for a registry classified as bearer, a token exchange that fails or
\* yields no token ends the client request with 401 Unauthorized and no blob
\* request is sent upstream.
C32_TokenExchangeFailure ==
    \A h \in Handlers :
        NoTokenObtained(h) =>
            /\ ~Sent(h, "blob")
            /\ pc[h] = "done" => resp[h] = 401

\* The probe handler h has just sent came back without a usable
\* classification: detection failed, or it gave a bearer registry with no
\* token URL.
ProbeFailed(h) ==
    /\ pc[h] = "probe"
    /\ pc'[h] # "probe"
    /\ \/ regInfo'[h] = NoInfo
       \/ regInfo'[h].AuthMethod = "AuthBearer" /\ regInfo'[h].TokenURL = <<>>

\* C33: a failed auth probe ends the client request with 502 Bad Gateway and
\* leaves the registry cache exactly as it was, so that the next request for
\* the domain probes again; a request answered 502 has sent no token and no
\* blob request.
C33_DetectionFailureNotCached ==
    /\ [][\A h \in Handlers :
              ProbeFailed(h) =>
                  /\ pc'[h] = "done"
                  /\ resp'[h] = 502
                  /\ registryCache' = registryCache]_vars
    /\ [](\A h \in Handlers :
              resp[h] = 502 => ~Sent(h, "token") /\ ~Sent(h, "blob"))

\* C34: for a registry classified as basic no token fetch and no blob
\* request is sent, and the client request ends with 501 Not Implemented,
\* whether the classification came from the probe of this request or from
\* the registry cache.
C34_BasicRefused ==
    \A h \in Handlers :
        regInfo[h].AuthMethod = "AuthBasic" =>
            /\ ~Sent(h, "token")
            /\ ~Sent(h, "blob")
            /\ pc[h] = "done" => resp[h] = 501

\* A request refused from the cached classification: it sent nothing at all.
C34_Witness ==
    \E h \in Handlers :
        /\ regInfo[h].AuthMethod = "AuthBasic"
        /\ req[h].RegistryDomain \in DOMAIN registryCache
        /\ calls[h] = <<>>
        /\ pc[h] = "done"
        /\ resp[h] = 501

\* ------------------------------------------------------------------------
\* ConfigDriveCache with the ticker of cleanup
\* ------------------------------------------------------------------------

\* The clock of this specification runs in steps of half a time unit: the
\* instant is now, or now and a half.  The ticker of cleanup has the period
\* ttl/2, which is ttl half units.  fnCall holds the half and whether the
\* tick of the present instant has been served.
Ticker(half, swept) == [fn |-> "cleanup", arg |-> [half |-> half, swept |-> swept]]

\* The instant in half units.
HalfNow == 2 * now + fnCall.arg.half

\* The ticker fires at the present instant.
TickDue == HalfNow % ttl = 0

\* The keys cleanup removes, the age taken from the unit clock alone.
ExpiredAtUnit(half) == {k \in DOMAIN cache : now - cache[k].Timestamp > ttl}

\* The keys cleanup removes at the instant now + half/2: those with
\* now.Sub(entry.Timestamp) > c.ttl.
ExpiredAt(half) ==
    {k \in DOMAIN cache : 2 * (now - cache[k].Timestamp) + half > 2 * ttl}

\* One iteration of cleanup's loop: the tick is received, and under the
\* write lock every expired entry is removed and its length subtracted.
Cleanup ==
    /\ TickDue
    /\ ~fnCall.arg.swept
    /\ mu = "free"
    /\ \E expired \in {ExpiredAt(fnCall.arg.half)} :
           /\ currentSize' = currentSize - SumLen(cache, expired)
           /\ cache' = [k \in (DOMAIN cache) \ expired |-> cache[k]]
    /\ fnCall' = Ticker(fnCall.arg.half, TRUE)
    /\ ret' = NoRet
    /\ UNCHANGED <<mu, setCall, now, srcVersion, fnRet>>
    /\ UNCHANGED <<envVars, policyVars, proxyVars, kubeVars>>

\* Half a time unit passes; a tick that is due is served first.
HalfTick ==
    /\ TickDue => fnCall.arg.swept
    /\ IF fnCall.arg.half = 0
       THEN /\ now < MaxTime
            /\ fnCall' = Ticker(1, FALSE)
            /\ UNCHANGED now
       ELSE /\ now' = now + 1
            /\ fnCall' = Ticker(0, FALSE)
    /\ ret' = NoRet
    /\ UNCHANGED <<cache, currentSize, mu, setCall, srcVersion, fnRet>>
    /\ UNCHANGED <<envVars, policyVars, proxyVars, kubeVars>>

\* A call of the cache by a caller; the callers act at the whole instants.
CallerStep ==
    /\ fnCall.arg.half = 0
    /\ \/ \E key \in CacheKeys : Get(key)
       \/ \E key \in CacheKeys, data \in VersionPayloads :
              SetBegin(key, data, srcVersion[key])
       \/ SetEvict
       \/ SetInsert
       \/ \E key \in CacheKeys : Delete(key)

SweepInit ==
    /\ KubeIdle
    /\ CacheNew
    /\ allowList = <<>>
    /\ blockList = <<>>
    /\ PolicyIdle
    /\ ProxyIdle
    /\ fnCall = Ticker(0, FALSE)
    /\ fnRet = [err |-> FALSE]

SweepNext ==
    \/ CallerStep
    \/ Cleanup
    \/ HalfTick

SweepSpec == SweepInit /\ [][SweepNext]_vars

\* ------------------------------------------------------------------------
\* Properties of the background sweep
\* ------------------------------------------------------------------------

\* Age of the entry of key k in half units.
HalfAge(k) == HalfNow - 2 * cache[k].Timestamp

\* A step of the sweep removes the entries older than ttl and no others,
\* lowers currentSize by the length of their payloads, and happens while no
\* call holds the lock.
SweepStep ==
    (~fnCall.arg.swept /\ fnCall'.arg.swept) =>
        LET old == {k \in DOMAIN cache : HalfAge(k) > 2 * ttl}
        IN  /\ DOMAIN cache' = (DOMAIN cache) \ old
            /\ \A k \in DOMAIN cache' : cache'[k] = cache[k]
            /\ currentSize' = currentSize - SumLen(cache, old)
            /\ mu = "free" /\ mu' = "free"

\* C35: each sweep step removes every entry older than ttl and no other,
\* decreases currentSize by exactly the total length of the removed
\* payloads and is atomic with respect to Get, Set and Delete; with a sweep
\* every ttl/2 no entry is in the map later than ttl + ttl/2 after its Set.
C35_BackgroundSweep ==
    /\ [][SweepStep]_vars
    /\ [](\A k \in DOMAIN cache : HalfAge(k) <= 3 * ttl)

\* An entry at the age of ttl + ttl/2, about to be swept, which the sweep at
\* the age of ttl has left in the map.
C35_Witness ==
    /\ "a" \in DOMAIN cache
    /\ HalfAge("a") = 3 * ttl
    /\ TickDue
    /\ ~fnCall.arg.swept
    /\ currentSize = Len(cache["a"].Data)
    /\ Len(cache["a"].Data) > 0

\* Number of probes handler h has sent.
Probes(h) == Cardinality({i \in 1..Len(calls[h]) : calls[h][i].kind = "probe"})

\* A lookup that finds the domain cached takes the cached value and sends
\* nothing; a handler turns to the probe only from a lookup that missed,
\* probes are sent from there only, and no domain leaves the cache.
NoReprobe ==
    /\ \A h \in Handlers :
           /\ (/\ pc[h] = "lookup"
               /\ pc'[h] # "lookup"
               /\ req[h].RegistryDomain \in DOMAIN registryCache)
              => /\ pc'[h] = "auth"
                 /\ regInfo'[h] = registryCache[req[h].RegistryDomain]
                 /\ calls'[h] = calls[h]
           /\ (pc'[h] = "probe" /\ pc[h] # "probe")
              => /\ pc[h] = "lookup"
                 /\ req[h].RegistryDomain \notin DOMAIN registryCache
           /\ Len(calls'[h]) > Len(calls[h]) /\ calls'[h][Len(calls'[h])].kind = "probe"
              => pc[h] = "probe"
    /\ DOMAIN registryCache \subseteq DOMAIN registryCache'

\* C36: once a RegistryInfo for a domain is in the registry cache, every
\* request for the domain that begins its lookup afterwards obtains the
\* cached value and sends no GET /v2/ probe, for the rest of the process
\* lifetime.
C36_NoReprobe == [][NoReprobe]_vars

\* A request served from the cached classification of an anonymous
\* registry: its only outbound call is the blob request.
C36_Witness ==
    \E h \in Handlers :
        /\ pc[h] = "done"
        /\ req[h].RegistryDomain \in DOMAIN registryCache
        /\ regInfo[h] = registryCache[req[h].RegistryDomain]
        /\ regInfo[h].AuthMethod = "AuthNone"
        /\ Probes(h) = 0
        /\ Len(calls[h]) = 1
        /\ calls[h][1].kind = "blob"

\* C37: no response delivered to the boot client, with or without a
\* followed redirect, carries a header that contains the bearer token of
\* the request.
C37_TokenStaysServerSide ==
    (fnCall.fn = "done" /\ fnCall.arg.Request.bearerToken # "") =>
        \A name \in HeaderNames : \A i \in 1..Len(Delivered.Header[name]) :
            Delivered.Header[name][i] # "Bearer " \o fnCall.arg.Request.bearerToken

\* ------------------------------------------------------------------------
\* The UKI URL from the reconciler to the image proxy (internal/uki, server)
\* ------------------------------------------------------------------------

\* Longest image reference that is turned into a UKI URL.
MaxImageLen == 6

\* The characters of such a reference: a name character, the dot of a host
\* name and the three separators.
ImageChars == {"n", ".", ":", "/", "@"}

UKIImages == UNION {[1..n -> ImageChars] : n \in 1..MaxImageLen}

\* What getUKIDigestFromNestedManifest hands back: an error, or the digest
\* sha256:<hex> of the UKI layer.
UKIDigestResults ==
    {[err |-> TRUE, digest |-> <<>>]}
        \cup {[err |-> FALSE, digest |-> <<"sha256:">> \o hex] :
                 hex \in {<<"d">>, <<"d", "e">>}}

\* The image server as the reconciler is configured with it: the route
\* /httpboot of the image proxy.
imageServerURLs == {<<"http://s", "/httpboot">>}

URLError == [err |-> TRUE, repository |-> <<>>, ukiURL |-> <<>>]

\* ConstructUKIURLFromOCI with the digest written into the URL as it is.
ConstructUKIURLFromOCIKeepAlgorithm(image, imageServerURL, digestResult) ==
    LET parsed == parseOCIReferenceForUKI(image)
    IN IF parsed.err \/ digestResult.err THEN URLError
       ELSE [err |-> FALSE, repository |-> parsed.repository,
             ukiURL |-> imageServerURL \o <<"/">> \o parsed.repository
                            \o <<"/", "sha256-">> \o digestResult.digest
                            \o <<".", "efi">>]

\* ConstructUKIURLFromOCI, for the result digestResult of
\* getUKIDigestFromNestedManifest.
ConstructUKIURLFromOCI(image, imageServerURL, digestResult) ==
    LET parsed == parseOCIReferenceForUKI(image)
    IN IF parsed.err THEN URLError
       ELSE IF digestResult.err THEN URLError
       ELSE LET ukiDigest == TrimPrefix(digestResult.digest, <<"sha256:">>)
            IN [err |-> FALSE, repository |-> parsed.repository,
                ukiURL |-> imageServerURL \o <<"/">> \o parsed.repository
                               \o <<"/", "sha256-">> \o ukiDigest \o <<".", "efi">>]

\* The path the image proxy is asked for when a machine fetches ukiURL from
\* the image server: the route /httpboot/ and what follows the server's URL.
URLPath(ukiURL, imageServerURL) ==
    <<"/httpboot/">> \o TrimPrefix(ukiURL, imageServerURL \o <<"/">>)

\* The OCIImageName of parseHttpBootImagePath: all segments but the last.
httpBootImageName(path) ==
    LET trimmed == TrimPrefix(path, <<"/httpboot/">>)
        segments == Split(trimmed, "/")
    IN Join(SubSeq(segments, 1, Len(segments) - 1), "/")

\* The reconciler builds the URL of the image at hand.
ConstructURL ==
    /\ fnCall.fn = ""
    /\ fnCall' = [fnCall EXCEPT !.fn = "ConstructUKIURLFromOCI"]
    /\ fnRet' = ConstructUKIURLFromOCI(fnCall.arg.image, fnCall.arg.imageServerURL,
                                       fnCall.arg.digestResult)
    /\ UNCHANGED notFn

\* A machine fetches the URL and the image proxy parses its path.
ParseURLPath ==
    /\ fnCall.fn = "ConstructUKIURLFromOCI"
    /\ ~fnRet.err
    /\ fnCall' = [fnCall EXCEPT !.fn = "parseHttpBootImagePath"]
    /\ \E path \in {URLPath(fnRet.ukiURL, fnCall.arg.imageServerURL)} :
          \E r \in {parseHttpBootImagePath(path)} :
             fnRet' = [err |-> r.err, repository |-> fnRet.repository,
                       ukiURL |-> fnRet.ukiURL,
                       OCIImageName |-> IF r.err THEN <<>> ELSE httpBootImageName(path),
                       details |-> r.details]
    /\ UNCHANGED notFn

\* Any reference may be configured and the registry may serve any digest.
UKIURLInit ==
    /\ fnCall \in [fn : {""},
                   arg : [image : UKIImages, imageServerURL : imageServerURLs,
                          digestResult : UKIDigestResults]]
    /\ KubeIdle
    /\ allowList = <<>>
    /\ blockList = <<>>
    /\ PolicyIdle
    /\ ProxyIdle
    /\ CacheNew
    /\ fnRet = [err |-> FALSE]

UKIURLNext ==
    \/ ConstructURL
    \/ ParseURLPath

UKIURLSpec == UKIURLInit /\ [][UKIURLNext]_vars

\* ------------------------------------------------------------------------
\* Properties of the UKI URL
\* ------------------------------------------------------------------------

\* The path of a URL has been parsed by the image proxy.
PathParsed == fnCall.fn = "parseHttpBootImagePath"

\* The image name and the digest come back as they went in.
NameAndDigestBack ==
    /\ ~fnRet.err
    /\ fnRet.OCIImageName = fnRet.repository
    /\ fnRet.details.LayerDigest = fnCall.arg.digestResult.digest

\* The registry domain and the repository make up the image name again.
DomainAndRepositoryBack ==
    fnRet.details.RegistryDomain \o <<"/">> \o fnRet.details.RepositoryName
        = fnRet.repository

\* The first segment of the repository has a '.' or a ':'.
FirstSegmentIsHost ==
    LET first == Split(fnRet.repository, "/")[1]
    IN Contains(first, ".") \/ Contains(first, ":")

CacheFairSpec ==
    /\ CacheInit
    /\ [][CacheNext]_vars
    /\ WF_vars(SetEvict)
    /\ WF_vars(SetInsert)

\* ------------------------------------------------------------------------
\* Properties of Set's eviction loop
\* ------------------------------------------------------------------------

\* An iteration of the eviction loop is due and evictOldest may pick key.
MayPick(key) == mu = "Set" /\ MustEvict /\ key \in OldestKeys

\* C39: every call of Set returns and releases the lock, and every
\* iteration of its eviction loop removes an entry, whatever evictOldest
\* picks.
C39_SetTerminates ==
    /\ (mu = "Set") ~> (mu = "free")
    /\ [](\A key \in CacheKeys : MayPick(key) => key # "")

\* ------------------------------------------------------------------------
\* ConfigDriveCache with a record of the calls that took effect
\* ------------------------------------------------------------------------

\* Payloads that differ in their bytes, so that the payload of one Set is
\* told from that of another of the same length, and a longer one that makes
\* Set evict.
DistinctPayloads == {<<1>>, <<2>>, <<1, 2>>}

\* The record: per key the payload of the last Set that took effect, if no
\* Delete of the key came after it (fnRet), and the last Delete with a bit
\* that flips at every Delete (fnCall).
NoSet == [set |-> FALSE, data |-> <<>>]

LastDelete(key, seq) == [fn |-> "Delete", arg |-> [key |-> key, seq |-> seq]]

\* The last step of a Set, written into the record.
RecordedSetInsert ==
    /\ StoreEntry
    /\ fnRet' = [fnRet EXCEPT ![setCall.key] = [set |-> TRUE, data |-> setCall.data]]
    /\ UNCHANGED <<envVars, policyVars, proxyVars, kubeVars, fnCall>>

\* A Delete, written into the record.
RecordedDelete(key) ==
    /\ DeleteEntry(key)
    /\ fnRet' = [fnRet EXCEPT ![key] = NoSet]
    /\ fnCall' = LastDelete(key, 1 - fnCall.arg.seq)
    /\ UNCHANGED <<envVars, policyVars, proxyVars, kubeVars>>

RecordInit ==
    /\ KubeIdle
    /\ CacheNew
    /\ allowList = <<>>
    /\ blockList = <<>>
    /\ PolicyIdle
    /\ ProxyIdle
    /\ fnCall = [fn |-> "", arg |-> [key |-> "", seq |-> 0]]
    /\ fnRet = [key \in CacheKeys |-> NoSet]

\* Any sequence and interleaving of callers, the sweep and the clock.
RecordNext ==
    \/ \E key \in CacheKeys : Get(key)
    \/ \E key \in CacheKeys, data \in DistinctPayloads :
          SetBegin(key, data, srcVersion[key])
    \/ SetEvict
    \/ RecordedSetInsert
    \/ \E key \in CacheKeys : RecordedDelete(key)
    \/ Sweep
    \/ Tick

RecordSpec == RecordInit /\ [][RecordNext]_vars

\* ------------------------------------------------------------------------
\* Properties of Get and Delete
\* ------------------------------------------------------------------------

\* A payload that Get has just returned is the payload of the last Set of
\* the key, and no Delete of the key came after that Set.
GetSound ==
    (ret.op = "Get" /\ ret.ok) =>
        /\ fnRet[ret.key].set
        /\ ret.data = fnRet[ret.key].data

\* A step of Delete(key) removes the key and nothing else, leaves the other
\* entries as they are, and changes nothing when the key is absent.
DeleteOnlyKey ==
    fnCall' # fnCall =>
        LET key == fnCall'.arg.key
        IN /\ DOMAIN cache' = (DOMAIN cache) \ {key}
           /\ \A k \in DOMAIN cache' : cache'[k] = cache[k]
           /\ key \notin DOMAIN cache => cache' = cache /\ currentSize' = currentSize
           /\ mu' = "free"

\* C40: Get returns only the payload of the most recent Set of its key, with
\* no Delete of the key since; Delete(key) removes only that key, leaves
\* every other entry and its timestamp unchanged and does nothing when the
\* key is absent.
C40_GetSoundness ==
    /\ []GetSound
    /\ [][DeleteOnlyKey]_vars

\* Get has just returned the second payload set under a key that was
\* deleted in between, while another key holds a payload of the same length.
C40_Witness ==
    /\ ret.op = "Get"
    /\ ret.ok
    /\ ret.key = "a"
    /\ ret.data = <<2>>
    /\ fnCall = LastDelete("a", 1)
    /\ "b" \in DOMAIN cache
    /\ cache["b"].Data = <<1>>

\* ------------------------------------------------------------------------
\* Properties of the registry cache
\* ------------------------------------------------------------------------

\* C11: a RegistryInfo that is in the registry cache for a domain stays
\* there with the same value in every step, whichever handler writes.
C11_WriteOnce ==
    [][\A d \in DOMAIN registryCache :
          /\ d \in DOMAIN registryCache'
          /\ registryCache'[d] = registryCache[d]]_vars

=============================================================================
